---- MODULE Spec2Model ----
(***************************************************************************)
(* Bukr ticketing core (backend/core): ticket purchase under a row lock,   *)
(* free-ticket claims, payment initialisation, provider webhooks and the   *)
(* gate scanner, over one shared PostgreSQL database.                      *)
(*                                                                         *)
(* The database is the state: events.available_tickets, the tickets,       *)
(* payment_transactions, scan_log and promo_codes tables.  Every request   *)
(* handler is a process that runs its SQL statements one at a time; a      *)
(* statement is atomic, a handler is not (except inside a transaction).    *)
(***************************************************************************)
EXTENDS Integers, Sequences, FiniteSets, TLC

\* ------------------------------------------------------------------ bounds
NumBuyers == 2          \* concurrent POST /tickets/purchase requests
NumClaimers == 2        \* concurrent POST /tickets/claim-free requests
NumSideBuyers == 1      \* purchases running beside claims, scans and webhooks
NumScanners == 2        \* concurrent PATCH /scanner/mark-used requests
NumHooks == 2           \* concurrent webhook deliveries
NumPayers == 2          \* concurrent POST /payments/initialize requests

\* ------------------------------------------------- rust_decimal::Decimal
\* A Decimal is a mantissa and a scale: the value m / 10^s.
Pow10(n) == CASE n = 0 -> 1 [] n = 1 -> 10 [] n = 2 -> 100 [] n = 3 -> 1000
              [] n = 4 -> 10000 [] n = 5 -> 100000 [] OTHER -> 1000000

Dec(m, s) == [m |-> m, s |-> s]

DecZero == Dec(0, 0)

\* Decimal::from(i32) / Decimal::from_i32: an integer has scale 0.
DecFromInt(i) == Dec(i, 0)

DecRescale(d, s) == Dec(d.m * Pow10(s - d.s), s)

DecMaxScale(a, b) == IF a.s > b.s THEN a.s ELSE b.s

\* a - b: both operands are brought to the larger scale.
DecSub(a, b) ==
    LET s == DecMaxScale(a, b)
    IN  Dec(DecRescale(a, s).m - DecRescale(b, s).m, s)

\* a * b: mantissas multiply, scales add.
DecMul(a, b) == Dec(a.m * b.m, a.s + b.s)

\* Long division: one more fractional digit per round until the remainder
\* is zero or the 28 fractional digits of a Decimal are exhausted.
RECURSIVE DecDivLoop(_, _, _, _)
DecDivLoop(q, r, d, s) ==
    IF r = 0 \/ s >= 28
    THEN Dec(q, s)
    ELSE DecDivLoop(q * 10 + ((r * 10) \div d), (r * 10) % d, d, s + 1)

\* A division that keeps no fractional digit of the quotient.
DecDivInteger(a, b) == Dec(a.m \div b.m, a.s - b.s)

\* a / b for b > 0 of scale not above a's (here always Decimal::from(100)).
DecDiv(a, b) == DecDivLoop(a.m \div b.m, a.m % b.m, b.m, a.s - b.s)

\* Numeric comparison of Decimals (PartialEq/Ord compare values, not scales).
RECURSIVE DecNormalize(_)
DecNormalize(d) ==
    IF d.m = 0 THEN DecZero
    ELSE IF d.s > 0 /\ d.m % 10 = 0 THEN DecNormalize(Dec(d.m \div 10, d.s - 1))
    ELSE d

DecEq(a, b) == DecNormalize(a) = DecNormalize(b)

DecGtZero(a) == a.m > 0

\* ------------------------------------------------------------ pricing
\* tickets/service.rs STEP 3: quantity_dec, discount_multiplier, total_price.
DiscountMultiplier(discount) ==
    DecDiv(DecSub(DecFromInt(100), discount), DecFromInt(100))

TotalPrice(unit_price, quantity, discount) ==
    DecMul(DecMul(unit_price, DecFromInt(quantity)), DiscountMultiplier(discount))

\* --------------------------------------------------------------- events
\* The events table.  price, status and total_tickets are never written by
\* this service; available_tickets is the variable `available`.
Events == {"e1", "e2", "e3", "e4"}

EventStatus(e) == IF e = "e3" THEN "closed" ELSE "active"

EventPrice(e) == CASE e = "e1" -> Dec(10000, 2)     \* 100.00
                   [] e = "e2" -> Dec(0, 2)         \* a free event
                   [] OTHER    -> Dec(0, 2)         \* e3, e4: free too

Capacity(e) == IF e \in {"e1", "e4"} THEN 2 ELSE 1

Users == {"u1", "u2"}

\* ---------------------------------------------------------- promo codes
\* promo_codes rows (promos/dto.rs PromoCode).  expires_at = 0 stands for
\* NULL.  No statement of this service writes used_count.
PromoTable ==
    << [id |-> 1, event_id |-> "e1", code |-> "SAVE20",
        discount_percentage |-> Dec(2000, 2), ticket_limit |-> 1,
        used_count |-> 0, is_active |-> TRUE, expires_at |-> 0],
       [id |-> 2, event_id |-> "e1", code |-> "VIP50",
        discount_percentage |-> Dec(50, 0), ticket_limit |-> 2,
        used_count |-> 2, is_active |-> TRUE, expires_at |-> 0],
       [id |-> 3, event_id |-> "e2", code |-> "VIP50",
        discount_percentage |-> Dec(50, 0), ticket_limit |-> 0,
        used_count |-> 0, is_active |-> TRUE, expires_at |-> 3],
       [id |-> 4, event_id |-> "e1", code |-> "OLD10",
        discount_percentage |-> Dec(10, 0), ticket_limit |-> 0,
        used_count |-> 0, is_active |-> TRUE, expires_at |-> 1],
       [id |-> 5, event_id |-> "e1", code |-> "OFF10",
        discount_percentage |-> Dec(10, 0), ticket_limit |-> 0,
        used_count |-> 0, is_active |-> FALSE, expires_at |-> 0] >>

VARIABLES
    available,      \* events.available_tickets, per event
    tickets,        \* the tickets table, in insertion order
    payments,       \* the payment_transactions table, in insertion order
    scan_log,       \* the scan_log table, in insertion order
    promos,         \* the promo_codes table
    now,            \* NOW() of the database
    lock,           \* per event: the purchase holding the row lock, or 0
    buyer,          \* purchase requests in progress
    claimer,        \* claim-free requests in progress
    scanner,        \* mark-used requests in progress
    hook,           \* webhook deliveries in progress
    payer,          \* payment initialisations in progress
    promo_check,    \* the last answer of POST /promos/validate
    config,         \* the Config the services were constructed with
    quote,          \* a price computation: its inputs and its result
    response        \* an error on its way out: the AppError and the reply

vars == << available, tickets, payments, scan_log, promos, now, lock,
           buyer, claimer, scanner, hook, payer, promo_check, config, quote,
           response >>

db == << available, tickets, payments, scan_log, promos, now >>

\* ----------------------------------------------------- promos: validate
\* promos/repository.rs validate: the rows the WHERE clause selects.
PromoRowValid(r, event_id, code, t) ==
    /\ r.event_id = event_id
    /\ r.code = code
    /\ r.is_active
    /\ (r.expires_at = 0 \/ r.expires_at > t)
    /\ (r.ticket_limit = 0 \/ r.used_count < r.ticket_limit)

\* The same WHERE clause without its event_id = $1 conjunct.
PromoValidateAnyEvent(table, event_id, code, t) ==
    { i \in DOMAIN table :
        PromoRowValid(table[i], table[i].event_id, code, t) }

PromoValidate(table, event_id, code, t) ==
    { i \in DOMAIN table : PromoRowValid(table[i], event_id, code, t) }

\* ---------------------------------------------------------------- rows
\* Option<T>: None is the empty sequence, Some(x) the one-element sequence.
None == << >>

Some(x) == << x >>

IsSome(o) == Len(o) = 1

\* PurchaseTicketRequest (tickets/dto.rs) with the user id of the header.
Request(user, event, quantity, code, rating, provider) ==
    [user_id |-> user, event_id |-> event, quantity |-> quantity,
     promo_code |-> code, excitement_rating |-> rating,
     payment_provider |-> provider]

NoRequest == Request("u1", "e1", 0, None, None, "")

\* The values purchase generates for a new ticket: BUKR-<short_id>-<event>
\* and BUKR-PAY-<timestamp>-<random>.  A draw is represented by the first
\* number not drawn before.
TicketIdStr(n, event) == << "BUKR", n, event >>

PaymentRef(n) == << "BUKR-PAY", n >>

FreeRef(n) == << "FREE", n >>

\* The values bound to the INSERT INTO tickets statement.
Bind(event, user, ticket_id, quantity, unit_price, total_price) ==
    [ticket_id |-> ticket_id, event_id |-> event, user_id |-> user,
     quantity |-> quantity, unit_price |-> unit_price,
     total_price |-> total_price]

\* The row INSERT INTO tickets ... VALUES (..., 'cancelled') would write.
TicketRowCancelled(v, discount, promo_code_id, payment_ref, provider) ==
    [ticket_id |-> v.ticket_id, event_id |-> v.event_id,
     user_id |-> v.user_id, quantity |-> v.quantity,
     unit_price |-> v.unit_price, total_price |-> v.total_price,
     discount_applied |-> discount, promo_code_id |-> promo_code_id,
     status |-> "cancelled", payment_ref |-> payment_ref,
     payment_provider |-> provider, scanned_at |-> 0, scanned_by |-> None]

\* TicketRepository::create and create_with_tx: the inserted row.  The
\* status literal of both INSERT statements is 'valid'; scanned_at is NULL.
TicketRow(v, discount, promo_code_id, payment_ref, provider) ==
    [ticket_id |-> v.ticket_id, event_id |-> v.event_id,
     user_id |-> v.user_id, quantity |-> v.quantity,
     unit_price |-> v.unit_price, total_price |-> v.total_price,
     discount_applied |-> discount, promo_code_id |-> promo_code_id,
     status |-> "valid", payment_ref |-> payment_ref,
     payment_provider |-> provider, scanned_at |-> 0, scanned_by |-> None]

\* A trigger that never raises.
TriggerAcceptsAlways(avail, event, quantity) == TRUE

\* The trigger on INSERT INTO tickets (tickets/repository.rs:55 names it,
\* tickets/service.rs:178 names its error): it takes quantity off the
\* event's available_tickets, or raises "Not enough tickets".
TriggerAccepts(avail, event, quantity) == avail[event] >= quantity

TriggerDecrement(avail, event, quantity) ==
    [avail EXCEPT ![event] = @ - quantity]

\* ------------------------------------------------------------- purchase
\* RULES 1-3 without the upper bound of RULE 1 and without RULE 3.
RequestValidLax(req) ==
    /\ ~(req.quantity < 1)
    /\ (IsSome(req.excitement_rating) =>
            ~(req.excitement_rating[1] < 1 \/ req.excitement_rating[1] > 10))

\* TicketService::purchase, RULES 1-3: the checks before the transaction.
RequestValid(req) ==
    /\ ~(req.quantity < 1 \/ req.quantity > 10)
    /\ (IsSome(req.excitement_rating) =>
            ~(req.excitement_rating[1] < 1 \/ req.excitement_rating[1] > 10))
    /\ ~(req.payment_provider # "paystack" /\ req.payment_provider # "stripe")

\* An availability check that is off by one.
SoldOutOffByOne(avail, quantity) == avail <= quantity

\* tickets/service.rs:117  if available < req.quantity
SoldOut(avail, quantity) == avail < quantity

\* A SELECT that does not wait for the row's lock (no FOR UPDATE).
RowLockAlwaysFree(lk, e) == TRUE

\* SELECT ... FOR UPDATE, and the UPDATE of the trigger, go on only when no
\* transaction holds the lock of the event's row.
RowLockFree(lk, e) == lk[e] = 0

\* A transaction that ends and keeps its row lock.
UnlockNever(lk, e) == lk

\* The end of a transaction (COMMIT, ROLLBACK or the rollback of a dropped
\* transaction) releases the lock of the event row it selected FOR UPDATE.
Unlock(lk, e) == [lk EXCEPT ![e] = 0]

IdleBuyer ==
    [pc |-> "idle", req |-> NoRequest, available |-> 0, discount |-> DecZero,
     promo_code_id |-> None, result |-> "", ticket |-> 0]

\* The request arrives; an invalid one is answered before any SQL.
PurchaseStart(p, req) ==
    /\ buyer[p].pc = "idle"
    /\ buyer' = [buyer EXCEPT ![p] =
                    IF RequestValid(req)
                    THEN [@ EXCEPT !.pc = "begin", !.req = req]
                    ELSE [@ EXCEPT !.pc = "done", !.req = req,
                                   !.result = "Validation"]]
    /\ UNCHANGED << db, lock, claimer, scanner, hook, payer, promo_check,
                    config, quote, response >>

\* BEGIN; SELECT ... FROM events WHERE id = $1 AND status = 'active' FOR UPDATE
\* and the availability check on the row read.  The statement waits while
\* another transaction holds the row's lock.  An early `return Err` drops
\* the transaction without rolling it back.
PurchaseLockEvent(p) ==
    LET req == buyer[p].req
        e == req.event_id
    IN  /\ buyer[p].pc = "begin"
        /\ IF e \in Events /\ EventStatus(e) = "active"
           THEN /\ RowLockFree(lock, e)
                /\ lock' = [lock EXCEPT ![e] = p]
                /\ buyer' = [buyer EXCEPT ![p] =
                     IF SoldOut(available[e], req.quantity)
                     THEN [@ EXCEPT !.pc = "dropped",
                                    !.available = available[e],
                                    !.result = "TicketsExhausted"]
                     ELSE [@ EXCEPT !.pc = "locked",
                                    !.available = available[e]]]
           ELSE /\ buyer' = [buyer EXCEPT ![p] =
                     [@ EXCEPT !.pc = "done", !.result = "NotFound"]]
                /\ UNCHANGED lock
        /\ UNCHANGED << db, claimer, scanner, hook, payer, promo_check,
                        config, quote, response >>

\* STEP 2: promo_repo.validate on another connection of the pool; an
\* invalid code rolls the transaction back.
PurchasePromo(p) ==
    LET req == buyer[p].req
        e == req.event_id
    IN  /\ buyer[p].pc = "locked"
        /\ IF IsSome(req.promo_code)
           THEN LET rows == PromoValidate(promos, e, req.promo_code[1], now)
                IN  IF rows = {}
                    THEN /\ buyer' = [buyer EXCEPT ![p] =
                              [@ EXCEPT !.pc = "done",
                                        !.result = "PromoInvalid"]]
                         /\ lock' = Unlock(lock, e)
                    ELSE /\ \E i \in rows :
                              buyer' = [buyer EXCEPT ![p] =
                                [@ EXCEPT !.pc = "priced",
                                   !.discount = promos[i].discount_percentage,
                                   !.promo_code_id = Some(promos[i].id)]]
                         /\ UNCHANGED lock
           ELSE /\ buyer' = [buyer EXCEPT ![p] = [@ EXCEPT !.pc = "priced"]]
                /\ UNCHANGED lock
        /\ UNCHANGED << db, claimer, scanner, hook, payer, promo_check,
                        config, quote, response >>

\* STEPS 3-7 and COMMIT: the price, the generated ids, the INSERT (with
\* its trigger) and the commit, which publishes the row and the counter
\* and releases the row lock.
PurchaseIssue(p, short_id, pay_rand) ==
    LET req == buyer[p].req
        e == req.event_id
        unit_price == EventPrice(e)
        total_price == TotalPrice(unit_price, req.quantity, buyer[p].discount)
        row == TicketRow(Bind(e, req.user_id, TicketIdStr(short_id, e),
                              req.quantity, unit_price, total_price),
                         buyer[p].discount, buyer[p].promo_code_id,
                         Some(PaymentRef(pay_rand)), req.payment_provider)
    IN  /\ buyer[p].pc = "priced"
        /\ IF TriggerAccepts(available, e, req.quantity)
           THEN /\ tickets' = Append(tickets, row)
                /\ available' = TriggerDecrement(available, e, req.quantity)
                /\ lock' = Unlock(lock, e)
                /\ buyer' = [buyer EXCEPT ![p] =
                     [@ EXCEPT !.pc = "done", !.result = "ok",
                               !.ticket = Len(tickets) + 1]]
           ELSE /\ buyer' = [buyer EXCEPT ![p] =
                     [@ EXCEPT !.pc = "dropped",
                               !.result = "TicketsExhausted"]]
                /\ UNCHANGED << tickets, available, lock >>
        /\ UNCHANGED << payments, scan_log, promos, now,
                        claimer, scanner, hook, payer, promo_check, config, quote, response >>

\* The same steps when the two random draws are numbers not drawn before.
PurchaseCommit(p) == PurchaseIssue(p, Len(tickets) + 1, Len(tickets) + 1)

\* A dropped transaction that is never rolled back: its lock stays.
PurchaseTxDropLeak(p) ==
    /\ buyer[p].pc = "dropped"
    /\ buyer' = [buyer EXCEPT ![p] = [@ EXCEPT !.pc = "done"]]
    /\ UNCHANGED << db, lock, claimer, scanner, hook, payer, promo_check,
                    config, quote, response >>

\* A dropped sqlx transaction is rolled back when its connection goes back
\* to the pool: the row lock is released after the error was returned.
PurchaseTxDrop(p) ==
    /\ buyer[p].pc = "dropped"
    /\ lock' = Unlock(lock, buyer[p].req.event_id)
    /\ buyer' = [buyer EXCEPT ![p] = [@ EXCEPT !.pc = "done"]]
    /\ UNCHANGED << db, claimer, scanner, hook, payer, promo_check, config,
                    quote, response >>

\* ------------------------------------------------- purchase: SQL errors
\* A transaction whose writes stay in the table although it did not commit.
TxOutcomeDirty(committed, before, after) == after

\* What a transaction leaves of a table or a counter: what it wrote if it
\* committed, what was there before if it did not.
TxOutcome(committed, before, after) == IF committed THEN after ELSE before

\* pool().begin() or the SELECT ... FOR UPDATE returns an sqlx error:
\* `.map_err(AppError::Database)?` before anything was read.
PurchaseBeginFails(p) ==
    /\ buyer[p].pc = "begin"
    /\ buyer' = [buyer EXCEPT ![p] =
         [@ EXCEPT !.pc = "done", !.result = "Database"]]
    /\ UNCHANGED << db, lock, claimer, scanner, hook, payer, promo_check,
                    config, quote, response >>

\* promo_repo.validate returns an sqlx error: the `?` drops the
\* transaction.
PurchasePromoFails(p) ==
    /\ buyer[p].pc = "locked"
    /\ IsSome(buyer[p].req.promo_code)
    /\ buyer' = [buyer EXCEPT ![p] =
         [@ EXCEPT !.pc = "dropped", !.result = "Database"]]
    /\ UNCHANGED << db, lock, claimer, scanner, hook, payer, promo_check,
                    config, quote, response >>

\* create_with_tx returns an sqlx error that is not the trigger's: the
\* closure maps it to AppError::Database and the `?` drops the
\* transaction.
PurchaseInsertFails(p) ==
    /\ buyer[p].pc = "priced"
    /\ buyer' = [buyer EXCEPT ![p] =
         [@ EXCEPT !.pc = "dropped", !.result = "Database"]]
    /\ UNCHANGED << db, lock, claimer, scanner, hook, payer, promo_check,
                    config, quote, response >>

\* The INSERT went through and tx.commit() returns an error: the
\* transaction ends without having committed, its row and its trigger's
\* decrement are not published and its lock is released.
PurchaseCommitFails(p) ==
    LET req == buyer[p].req
        e == req.event_id
        n == Len(tickets) + 1
        unit_price == EventPrice(e)
        total_price == TotalPrice(unit_price, req.quantity, buyer[p].discount)
        row == TicketRow(Bind(e, req.user_id, TicketIdStr(n, e), req.quantity,
                              unit_price, total_price),
                         buyer[p].discount, buyer[p].promo_code_id,
                         Some(PaymentRef(n)), req.payment_provider)
    IN  /\ buyer[p].pc = "priced"
        /\ TriggerAccepts(available, e, req.quantity)
        /\ tickets' = TxOutcome(FALSE, tickets, Append(tickets, row))
        /\ available' =
              TxOutcome(FALSE, available,
                        TriggerDecrement(available, e, req.quantity))
        /\ lock' = Unlock(lock, e)
        /\ buyer' = [buyer EXCEPT ![p] =
             [@ EXCEPT !.pc = "done", !.result = "Database"]]
        /\ UNCHANGED << payments, scan_log, promos, now, claimer, scanner,
                        hook, payer, promo_check, config, quote, response >>

\* ----------------------------------------------------------- claim-free
IdleClaimer ==
    [pc |-> "idle", user_id |-> "u1", event_id |-> "e1", result |-> "",
     ticket |-> 0]

\* TicketRepository::get_event reads the event whatever its status; then
\* the price and availability checks of TicketService::claim_free.
ClaimGetEvent(c, user, event) ==
    /\ claimer[c].pc = "idle"
    /\ claimer' = [claimer EXCEPT ![c] =
         IF event \notin Events
         THEN [@ EXCEPT !.pc = "done", !.user_id = user, !.event_id = event,
                        !.result = "NotFound"]
         ELSE IF DecGtZero(EventPrice(event))
         THEN [@ EXCEPT !.pc = "done", !.user_id = user, !.event_id = event,
                        !.result = "BadRequest"]
         ELSE IF available[event] <= 0
         THEN [@ EXCEPT !.pc = "done", !.user_id = user, !.event_id = event,
                        !.result = "BadRequest"]
         ELSE [@ EXCEPT !.pc = "checked", !.user_id = user,
                        !.event_id = event]]
    /\ UNCHANGED << db, lock, buyer, scanner, hook, payer, promo_check,
                    config, quote, response >>

\* TicketRepository::check_user_ticket: COUNT(*) of the user's tickets of
\* the event whose status is not 'cancelled'.
CheckUserTicket(ts, user, event) ==
    Cardinality({ i \in DOMAIN ts :
        /\ ts[i].user_id = user
        /\ ts[i].event_id = event
        /\ ts[i].status # "cancelled" }) > 0

ClaimCheckUser(c) ==
    /\ claimer[c].pc = "checked"
    /\ claimer' = [claimer EXCEPT ![c] =
         IF CheckUserTicket(tickets, claimer[c].user_id, claimer[c].event_id)
         THEN [@ EXCEPT !.pc = "done", !.result = "BadRequest"]
         ELSE [@ EXCEPT !.pc = "creating"]]
    /\ UNCHANGED << db, lock, buyer, scanner, hook, payer, promo_check,
                    config, quote, response >>

\* TicketRepository::create_ticket -> create: one autocommitted INSERT of a
\* quantity-1 ticket.  Its trigger updates the event row, so the statement
\* waits for a purchase that holds the row's lock.
ClaimCreate(c) ==
    LET e == claimer[c].event_id
        n == Len(tickets) + 1
        row == TicketRow(Bind(e, claimer[c].user_id, << "BUKR", n, "free" >>,
                              1, DecZero, DecZero),
                         DecZero, None, Some(FreeRef(n)), "free")
    IN  /\ claimer[c].pc = "creating"
        /\ RowLockFree(lock, e)
        /\ IF TriggerAccepts(available, e, 1)
           THEN /\ tickets' = Append(tickets, row)
                /\ available' = TriggerDecrement(available, e, 1)
                /\ claimer' = [claimer EXCEPT ![c] =
                     [@ EXCEPT !.pc = "done", !.result = "ok", !.ticket = n]]
           ELSE /\ claimer' = [claimer EXCEPT ![c] =
                     [@ EXCEPT !.pc = "done", !.result = "Database"]]
                /\ UNCHANGED << tickets, available >>
        /\ UNCHANGED << payments, scan_log, promos, now, lock,
                        buyer, scanner, hook, payer, promo_check, config, quote, response >>

\* ------------------------------------------------- POST /promos/validate
NoAnswer ==
    [event_id |-> "", code |-> "", result |-> "", discount |-> DecZero,
     remaining_uses |-> None]

\* PromoService::validate: read-only; the answer is all it produces.
PromoServiceValidate(event, code) ==
    LET rows == PromoValidate(promos, event, code, now)
    IN  /\ IF rows = {}
           THEN promo_check' = [NoAnswer EXCEPT !.event_id = event,
                                   !.code = code, !.result = "PromoInvalid"]
           ELSE \E i \in rows :
                  promo_check' =
                    [event_id |-> event, code |-> code, result |-> "ok",
                     discount |-> promos[i].discount_percentage,
                     remaining_uses |->
                        IF promos[i].ticket_limit > 0
                        THEN Some(promos[i].ticket_limit - promos[i].used_count)
                        ELSE None]
        /\ promo_check' # promo_check
        /\ UNCHANGED << db, lock, buyer, claimer, scanner, hook, payer,
                        config, quote, response >>

\* ScanResult { result, ticket, message }
ScanResult(result, ticket, message) ==
    [result |-> result, ticket |-> ticket, message |-> message]

NoScan == ScanResult("", None, None)

IdleScanner ==
    [pc |-> "idle", ticket_id |-> << >>, event_id |-> "",
     scanned_by |-> None, rows |-> 0, result |-> "", scan |-> NoScan]

\* ------------------------- POST /scanner/validate, /scanner/manual-validate
\* The rows of SELECT ... FROM tickets t JOIN users u ... WHERE
\* t.ticket_id = $1 AND t.event_id = $2.
ScanLookup(ts, ticket_id, event_id) ==
    { i \in DOMAIN ts :
        ts[i].ticket_id = ticket_id /\ ts[i].event_id = event_id }

\* ScanTicketInfo: the holder is the joined users row of the ticket.
ScanTicketInfo(row, scanned_at) ==
    [ticket_id |-> row.ticket_id, user_name |-> row.user_id,
     quantity |-> row.quantity, scanned_at |-> scanned_at]

\* A classification that admits every ticket that has not been used.
ClassifyLax(row) ==
    IF row.status = "used"
    THEN ScanResult("already_used", Some(ScanTicketInfo(row, None)), None)
    ELSE ScanResult("valid", Some(ScanTicketInfo(row, None)), None)

\* validate_by_ticket_id, Some(r): the answer for the row found.
\* scanned_at = 0 is NULL.
Classify(row) ==
    IF row.status = "used"
    THEN ScanResult("already_used",
                    Some(ScanTicketInfo(row,
                        IF row.scanned_at = 0 THEN None
                        ELSE Some(row.scanned_at))),
                    None)
    ELSE IF row.status = "valid"
    THEN ScanResult("valid", Some(ScanTicketInfo(row, None)), None)
    ELSE ScanResult("invalid", None,
                    Some(<< "Ticket status is", row.status >>))

\* validate_by_ticket_id, None.
NotFoundScan ==
    ScanResult("invalid", None,
               Some(<< "Ticket not found or does not belong to this event" >>))

\* A validation that consumes the ticket it admits.
ValidateAndConsume(s, ticket_id, event_id) ==
    LET rows == ScanLookup(tickets, ticket_id, event_id)
    IN  /\ scanner[s].pc = "idle"
        /\ \E answer \in IF rows = {} THEN { NotFoundScan }
                          ELSE { Classify(tickets[i]) : i \in rows } :
              scanner' = [scanner EXCEPT ![s] =
                 [@ EXCEPT !.pc = "done", !.ticket_id = ticket_id,
                           !.event_id = event_id, !.result = "scanned",
                           !.scan = answer]]
        /\ tickets' = [i \in DOMAIN tickets |->
              IF i \in rows /\ tickets[i].status = "valid"
              THEN [tickets[i] EXCEPT !.status = "used", !.scanned_at = now]
              ELSE tickets[i]]
        /\ UNCHANGED << available, payments, scan_log, promos, now, lock,
                        buyer, claimer, hook, payer, promo_check, config,
                        quote, response >>

\* ScannerService::validate_by_ticket_id, reached from validate_ticket and
\* manual_validate: one SELECT, then the answer.
ValidateByTicketId(s, ticket_id, event_id) ==
    LET rows == ScanLookup(tickets, ticket_id, event_id)
    IN  /\ scanner[s].pc = "idle"
        /\ \E answer \in IF rows = {} THEN { NotFoundScan }
                          ELSE { Classify(tickets[i]) : i \in rows } :
              scanner' = [scanner EXCEPT ![s] =
                 [@ EXCEPT !.pc = "done", !.ticket_id = ticket_id,
                           !.event_id = event_id, !.result = "scanned",
                           !.scan = answer]]
        /\ UNCHANGED << db, lock, buyer, claimer, hook, payer, promo_check,
                        config, quote, response >>

\* ------------------------------------- PATCH /scanner/mark-used/{ticket_id}

\* An UPDATE whose WHERE clause has lost  AND status = 'valid'.
MarkUsedMatchesAnyStatus(ts, ticket_id) ==
    { i \in DOMAIN ts : ts[i].ticket_id = ticket_id }

\* scanner/service.rs:301  WHERE ticket_id = $1 AND status = 'valid'
MarkUsedMatches(ts, ticket_id) ==
    { i \in DOMAIN ts : ts[i].ticket_id = ticket_id /\ ts[i].status = "valid" }

\* scanner/service.rs:301  SET status = 'used', scanned_at = NOW(),
\* scanned_by = $2
MarkUsedUpdate(ts, ticket_id, t, scanned_by) ==
    [i \in DOMAIN ts |->
        IF i \in MarkUsedMatches(ts, ticket_id)
        THEN [ts[i] EXCEPT !.status = "used", !.scanned_at = t,
                           !.scanned_by = scanned_by]
        ELSE ts[i]]

\* scanner/service.rs:315  INSERT INTO scan_log ... SELECT t.id, t.event_id,
\* $2, 'valid' FROM tickets t WHERE t.ticket_id = $1: the rows from index i on.
RECURSIVE ScanLogRows(_, _, _, _)
ScanLogRows(ts, i, ticket_id, scanned_by) ==
    IF i > Len(ts) THEN << >>
    ELSE (IF ts[i].ticket_id = ticket_id
          THEN << [ticket |-> i, event_id |-> ts[i].event_id,
                   scanned_by |-> scanned_by, result |-> "valid"] >>
          ELSE << >>) \o ScanLogRows(ts, i + 1, ticket_id, scanned_by)

\* scanner::handler::mark_used passes scanned_by = None to
\* ScannerService::mark_used, whose first statement is the conditional
\* UPDATE; no row affected is answered TicketAlreadyUsed.
MarkUsedCas(s, ticket_id) ==
    LET rows == Cardinality(MarkUsedMatches(tickets, ticket_id))
    IN  /\ scanner[s].pc = "idle"
        /\ tickets' = MarkUsedUpdate(tickets, ticket_id, now, None)
        /\ scanner' = [scanner EXCEPT ![s] =
             IF rows = 0
             THEN [@ EXCEPT !.pc = "done", !.ticket_id = ticket_id,
                            !.result = "TicketAlreadyUsed"]
             ELSE [@ EXCEPT !.pc = "log", !.ticket_id = ticket_id,
                            !.rows = rows]]
        /\ UNCHANGED << available, payments, scan_log, promos, now, lock,
                        buyer, claimer, hook, payer, promo_check, config,
                        quote, response >>

\* An audit INSERT whose error is returned with `?`.
LogResultChecked(appended) == IF appended THEN "ok" ELSE "Database"

\* `let _ = sqlx::query(...).execute(...).await; Ok(true)`: the outcome of
\* the audit INSERT is dropped.
LogResult(appended) == "ok"

\* The audit INSERT that follows a successful UPDATE, then Ok(true).
MarkUsedLog(s) ==
    /\ scanner[s].pc = "log"
    /\ scan_log' = scan_log \o ScanLogRows(tickets, 1, scanner[s].ticket_id,
                                           scanner[s].scanned_by)
    /\ scanner' = [scanner EXCEPT ![s] =
         [@ EXCEPT !.pc = "done", !.result = LogResult(TRUE)]]
    /\ UNCHANGED << available, tickets, payments, promos, now, lock,
                    buyer, claimer, hook, payer, promo_check, config, quote, response >>

\* The audit INSERT returns an sqlx error: nothing is appended, and the
\* answer is the same.
MarkUsedLogFails(s) ==
    /\ scanner[s].pc = "log"
    /\ scanner' = [scanner EXCEPT ![s] =
         [@ EXCEPT !.pc = "done", !.result = LogResult(FALSE)]]
    /\ UNCHANGED << db, lock, buyer, claimer, hook, payer, promo_check,
                    config, quote, response >>

\* ---------------------------------------------- POST /payments/webhook/*
\* A request body: bytes that parse as a Paystack payload ("paystack"), as
\* a Stripe event ("stripe"), or not as JSON at all ("garbage").
Body(format, event, reference, amount) ==
    [format |-> format, event |-> event,
     data |-> [reference |-> reference, amount |-> amount]]

\* The empty string, where a payment reference is expected.
NoRef == << >>

\* The empty string, where a signature header's value is expected.
NoSignature == << >>

\* hex(HMAC-SHA512(secret, body))
Hmac(secret, body) == << "hmac", secret, body >>

Delivery(provider, body, signature) ==
    [provider |-> provider, body |-> body, signature |-> signature]

\* PaymentService::verify_paystack_signature
VerifyPaystackSignature(secret, body, signature) ==
    IF secret = "" THEN TRUE ELSE Hmac(secret, body) = signature

\* serde_json::from_slice::<PaystackWebhookPayload>: event and data are
\* required fields.
ParsesAsPaystack(body) == body.format = "paystack"

\* serde_json::from_slice::<Value>: any JSON document.
ParsesAsJson(body) == body.format # "garbage"

\* payload["type"].as_str().unwrap_or("")
StripeEventType(body) == IF body.format = "stripe" THEN body.event ELSE ""

\* payload["data"]["object"]["client_reference_id"].as_str().unwrap_or("")
StripeReference(body) ==
    IF body.format = "stripe" THEN body.data.reference ELSE NoRef

IdleHook ==
    [pc |-> "idle", req |-> Delivery("", Body("garbage", "", NoRef, 0), NoSignature),
     reference |-> NoRef, tx_rows |-> 0, ticket_rows |-> 0, result |-> ""]

\* A settle step that records the payment when it finds no row to update.
SettleOrInsert(ps, reference, provider_response) ==
    Append(ps, [ticket |-> 0, user_id |-> "", provider |-> "",
                provider_ref |-> reference, amount |-> DecZero,
                status |-> "success",
                provider_response |-> provider_response])

\* UPDATE payment_transactions SET status = 'success'[, provider_response
\* = $2] WHERE provider_ref = $1.  The Stripe statement leaves
\* provider_response alone: it is passed None.
SettleTransactions(ps, reference, provider_response) ==
    [i \in DOMAIN ps |->
        IF ps[i].provider_ref = reference
        THEN [ps[i] EXCEPT !.status = "success",
                !.provider_response =
                    IF IsSome(provider_response) THEN provider_response ELSE @]
        ELSE ps[i]]

\* An activation whose WHERE clause has lost  AND status != 'used'.
ActivateMatchesAnyStatus(ts, reference) ==
    { i \in DOMAIN ts : ts[i].payment_ref = Some(reference) }

\* WHERE payment_ref = $1 AND status != 'used'
ActivateMatches(ts, reference) ==
    { i \in DOMAIN ts :
        ts[i].payment_ref = Some(reference) /\ ts[i].status # "used" }

\* UPDATE tickets SET status = 'valid' WHERE ...
ActivateTickets(ts, reference) ==
    [i \in DOMAIN ts |->
        IF i \in ActivateMatches(ts, reference)
        THEN [ts[i] EXCEPT !.status = "valid"] ELSE ts[i]]

\* A handler that lets every event type through to the updates.
IgnoresNothing(provider, event) == FALSE

\* payments/service.rs:368 and :408: the event types a handler answers Ok
\* without touching the database.
Ignores(provider, event) ==
    IF provider = "paystack" THEN event # "charge.success"
    ELSE event # "checkout.session.completed"

\* payments::handler::paystack_webhook up to the first statement of
\* handle_paystack_webhook: signature, parse, event type.
PaystackWebhook(h, req) ==
    /\ hook[h].pc = "idle"
    /\ req.provider = "paystack"
    /\ hook' = [hook EXCEPT ![h] =
         IF ~VerifyPaystackSignature(config.paystack_webhook_secret,
                                     req.body, req.signature)
         THEN [@ EXCEPT !.pc = "done", !.req = req,
                        !.result = "Unauthorized"]
         ELSE IF ~ParsesAsPaystack(req.body)
         THEN [@ EXCEPT !.pc = "done", !.req = req, !.result = "Validation"]
         ELSE IF Ignores("paystack", req.body.event)
         THEN [@ EXCEPT !.pc = "done", !.req = req, !.result = "ok"]
         ELSE [@ EXCEPT !.pc = "settle", !.req = req,
                        !.reference = req.body.data.reference]]
    /\ UNCHANGED << db, lock, buyer, claimer, scanner, payer, promo_check,
                    config, quote, response >>

\* payments::handler::stripe_webhook up to the first statement of
\* handle_stripe_webhook: the signature header is read and not used.
StripeWebhook(h, req) ==
    /\ hook[h].pc = "idle"
    /\ req.provider = "stripe"
    /\ hook' = [hook EXCEPT ![h] =
         IF ~ParsesAsJson(req.body)
         THEN [@ EXCEPT !.pc = "done", !.req = req, !.result = "Validation"]
         ELSE IF Ignores("stripe", StripeEventType(req.body))
         THEN [@ EXCEPT !.pc = "done", !.req = req, !.result = "ok"]
         ELSE [@ EXCEPT !.pc = "settle", !.req = req,
                        !.reference = StripeReference(req.body)]]
    /\ UNCHANGED << db, lock, buyer, claimer, scanner, payer, promo_check,
                    config, quote, response >>

\* The provider_response a handler binds: Paystack's payload.data, nothing
\* for Stripe.
ProviderResponse(req) ==
    IF req.provider = "paystack" THEN Some(req.body.data) ELSE None

\* First statement of both handlers: the transaction is settled.
WebhookSettle(h) ==
    /\ hook[h].pc = "settle"
    /\ payments' = SettleTransactions(payments, hook[h].reference,
                                      ProviderResponse(hook[h].req))
    /\ hook' = [hook EXCEPT ![h] =
         [@ EXCEPT !.pc = "activate",
                   !.tx_rows = Cardinality({ i \in DOMAIN payments :
                       payments[i].provider_ref = hook[h].reference })]]
    /\ UNCHANGED << available, tickets, scan_log, promos, now, lock,
                    buyer, claimer, scanner, payer, promo_check, config,
                    quote, response >>

\* Second statement of both handlers: the ticket is activated; then Ok(()).
WebhookActivate(h) ==
    /\ hook[h].pc = "activate"
    /\ tickets' = ActivateTickets(tickets, hook[h].reference)
    /\ hook' = [hook EXCEPT ![h] =
         [@ EXCEPT !.pc = "done", !.result = "ok",
                   !.ticket_rows =
                       Cardinality(ActivateMatches(tickets, hook[h].reference))]]
    /\ UNCHANGED << available, payments, scan_log, promos, now, lock,
                    buyer, claimer, scanner, payer, promo_check, config,
                    quote, response >>

\* -------------------------------------------- webhooks: failing updates
\* An UPDATE whose error is dropped instead of returned.
UpdateResultIgnored(done) == "ok"

\* `.execute(&self.pool).await.map_err(AppError::Database)?`: an UPDATE
\* that fails ends the handler with AppError::Database.
UpdateResult(done) == IF done THEN "ok" ELSE "Database"

\* The first UPDATE returns an sqlx error.
WebhookSettleFails(h) ==
    /\ hook[h].pc = "settle"
    /\ hook' = [hook EXCEPT ![h] =
         [@ EXCEPT !.pc = "done", !.result = UpdateResult(FALSE)]]
    /\ UNCHANGED << db, lock, buyer, claimer, scanner, payer, promo_check,
                    config, quote, response >>

\* The second UPDATE returns an sqlx error; the first one stays applied.
WebhookActivateFails(h) ==
    /\ hook[h].pc = "activate"
    /\ hook' = [hook EXCEPT ![h] =
         [@ EXCEPT !.pc = "done", !.result = UpdateResult(FALSE)]]
    /\ UNCHANGED << db, lock, buyer, claimer, scanner, payer, promo_check,
                    config, quote, response >>

\* The provider, answered 500, sends the same request again.
Redeliver(h) ==
    /\ hook[h].pc = "done"
    /\ hook[h].result = "Database"
    /\ hook' = [hook EXCEPT ![h] =
         [IdleHook EXCEPT !.req = hook[h].req]]
    /\ UNCHANGED << db, lock, buyer, claimer, scanner, payer, promo_check,
                    config, quote, response >>

\* ---------------------------------------------- POST /payments/initialize
IdlePayer ==
    [pc |-> "idle", user_id |-> "", ticket |-> 0, provider |-> "",
     reference |-> NoRef, result |-> ""]

\* A reference that is generated anew for every initialisation.
InitReferenceFresh(t, fresh) == fresh

\* payment_ref.unwrap_or_else(|| format!("BUKR-PAY-{}-{:06x}", ...))
InitReference(t, fresh) ==
    IF IsSome(t.payment_ref) THEN t.payment_ref[1] ELSE fresh

\* The row of INSERT INTO payment_transactions ... VALUES (..., 'pending').
TransactionRow(ticket, user, provider, reference, amount) ==
    [ticket |-> ticket, user_id |-> user, provider |-> provider,
     provider_ref |-> reference, amount |-> amount, status |-> "pending",
     provider_response |-> None]

\* An INSERT without its ON CONFLICT clause on a table without the key.
InsertTransactionNoConflict(ps, row) == Append(ps, row)

\* ... ON CONFLICT (provider_ref) DO NOTHING
InsertTransaction(ps, row) ==
    IF \E i \in DOMAIN ps : ps[i].provider_ref = row.provider_ref
    THEN ps ELSE Append(ps, row)

\* PaymentService::initialize: the ticket is read by (id, user_id), the
\* reference chosen, the provider matched.
InitializeRead(y, user, ticket, provider) ==
    /\ payer[y].pc = "idle"
    /\ payer' = [payer EXCEPT ![y] =
         IF ~(ticket \in DOMAIN tickets /\ tickets[ticket].user_id = user)
         THEN [@ EXCEPT !.pc = "done", !.user_id = user, !.ticket = ticket,
                        !.provider = provider, !.result = "NotFound"]
         ELSE IF provider \notin {"paystack", "stripe"}
         THEN [@ EXCEPT !.pc = "done", !.user_id = user, !.ticket = ticket,
                        !.provider = provider, !.result = "Validation"]
         ELSE [@ EXCEPT !.pc = "provider", !.user_id = user,
                        !.ticket = ticket, !.provider = provider,
                        !.reference =
                            InitReference(tickets[ticket],
                                          PaymentRef(Len(tickets) + y))]]
    /\ UNCHANGED << db, lock, buyer, claimer, scanner, hook, promo_check,
                    config, quote, response >>

\* init_paystack / init_stripe: with an empty API key a mock URL is
\* returned; otherwise the HTTP call gives a URL or fails with
\* PaymentFailed, which initialize returns as it is.
InitializeProviderCall(y, answered) ==
    LET key == IF payer[y].provider = "paystack"
               THEN config.paystack_secret_key ELSE config.stripe_secret_key
    IN  /\ payer[y].pc = "provider"
        /\ key = "" => answered
        /\ payer' = [payer EXCEPT ![y] =
             IF answered THEN [@ EXCEPT !.pc = "record"]
             ELSE [@ EXCEPT !.pc = "done", !.result = "PaymentFailed"]]
        /\ UNCHANGED << db, lock, buyer, claimer, scanner, hook,
                        promo_check, config, quote, response >>

\* The transaction row is recorded (its error ignored) and the reference
\* returned.
InitializeRecord(y) ==
    LET t == tickets[payer[y].ticket]
        row == TransactionRow(payer[y].ticket, payer[y].user_id,
                              payer[y].provider, payer[y].reference,
                              t.total_price)
    IN  /\ payer[y].pc = "record"
        /\ payments' = InsertTransaction(payments, row)
        /\ payer' = [payer EXCEPT ![y] =
             [@ EXCEPT !.pc = "done", !.result = "ok"]]
        /\ UNCHANGED << available, tickets, scan_log, promos, now, lock,
                        buyer, claimer, scanner, hook, promo_check, config,
                        quote, response >>

\* ------------------------------------ TicketRepository, without a caller
\* TicketRepository::update_payment_status: UPDATE tickets SET status = $2
\* WHERE payment_ref = $1.
UpdatePaymentStatus(payment_ref, status) ==
    /\ tickets' = [i \in DOMAIN tickets |->
         IF tickets[i].payment_ref = Some(payment_ref)
         THEN [tickets[i] EXCEPT !.status = status] ELSE tickets[i]]
    /\ tickets' # tickets
    /\ UNCHANGED << available, payments, scan_log, promos, now, lock,
                    buyer, claimer, scanner, hook, payer, promo_check,
                    config, quote, response >>


\* ----------------------------------------------------------- AppError
\* A value of the enum AppError: its variant and the text it carries (the
\* message, or the text of the sqlx error inside Database).
AppError(variant, text) == [variant |-> variant, text |-> text]

\* The reply of into_response: the status, and the code and the message
\* of the ErrorBody.
Reply(status, code, message) ==
    [status |-> status, code |-> code, message |-> message]

\* impl IntoResponse for AppError: the match of into_response.
IntoResponse(e) ==
    CASE e.variant = "NotFound" -> Reply(404, "NOT_FOUND", e.text)
      [] e.variant = "Validation" -> Reply(400, "VALIDATION_ERROR", e.text)
      [] e.variant = "BadRequest" -> Reply(400, "BAD_REQUEST", e.text)
      [] e.variant = "PromoInvalid" -> Reply(400, "PROMO_INVALID", e.text)
      [] e.variant = "Unauthorized" ->
            Reply(401, "UNAUTHORIZED", "Unauthorized")
      [] e.variant = "Forbidden" -> Reply(403, "FORBIDDEN", "Forbidden")
      [] e.variant = "Conflict" -> Reply(409, "CONFLICT", e.text)
      [] e.variant = "TicketsExhausted" ->
            Reply(409, "TICKETS_EXHAUSTED", "No tickets available")
      [] e.variant = "TicketAlreadyUsed" ->
            Reply(409, "TICKET_ALREADY_USED",
                  "Ticket has already been scanned")
      [] e.variant = "PaymentFailed" -> Reply(402, "PAYMENT_FAILED", e.text)
      [] e.variant = "Database" ->
            Reply(500, "INTERNAL_ERROR", "Internal server error")
      [] e.variant = "Internal" ->
            Reply(500, "INTERNAL_ERROR", "Internal server error")

NoReply == Reply(0, "", "")

NoResponse == [error |-> AppError("", ""), sent |-> FALSE, reply |-> NoReply]

\* A handler returns Err(e) and axum turns it into the HTTP response.
Respond ==
    /\ ~response.sent
    /\ response.error.variant # ""
    /\ response' = [response EXCEPT !.sent = TRUE,
                                    !.reply = IntoResponse(response.error)]
    /\ UNCHANGED << db, lock, buyer, claimer, scanner, hook, payer,
                    promo_check, config, quote >>

\* --------------------------------------------- the ticket shop: Spec
\* Purchases and promo validation against a fresh database.
Codes == {"SAVE20", "VIP50"}

\* The purchase requests clients send.
ShopRequests ==
    { Request("u1", "e1", 1, None, None, "paystack"),
      Request("u2", "e1", 2, None, Some(5), "stripe"),
      Request("u1", "e1", 1, Some("SAVE20"), None, "paystack"),
      Request("u2", "e1", 1, Some("VIP50"), None, "stripe"),
      Request("u1", "e1", 1, Some("OLD10"), None, "paystack"),
      Request("u1", "e1", 1, Some("OFF10"), None, "paystack"),
      Request("u1", "e2", 1, None, None, "stripe"),
      Request("u2", "e2", 1, Some("SAVE20"), None, "paystack"),
      Request("u2", "e2", 1, Some("VIP50"), None, "paystack"),
      Request("u1", "e3", 1, None, None, "paystack"),
      Request("u1", "e1", 0, None, None, "paystack"),
      Request("u1", "e1", 11, None, None, "paystack"),
      Request("u1", "e1", 1, None, Some(0), "paystack"),
      Request("u1", "e1", 1, None, Some(11), "paystack"),
      Request("u1", "e1", 1, None, None, "cash") }

Buyers == DOMAIN buyer

\* Config::from_env with both webhook secrets set.
DeployedConfig ==
    [paystack_secret_key |-> "sk_live", stripe_secret_key |-> "sk_live",
     paystack_webhook_secret |-> "whsec_paystack",
     stripe_webhook_secret |-> "whsec_stripe"]

NoQuote ==
    [unit_price |-> DecZero, quantity |-> 0, discount |-> DecZero,
     total_price |-> DecZero, runs |-> 0]

Claimers == DOMAIN claimer

InitDb ==
    /\ available = [e \in Events |-> Capacity(e)]
    /\ tickets = << >>
    /\ payments = << >>
    /\ scan_log = << >>
    /\ promos = PromoTable
    /\ now = 2
    /\ lock = [e \in Events |-> 0]
    /\ promo_check = NoAnswer
    /\ config = DeployedConfig

Init ==
    /\ InitDb
    /\ buyer = [p \in 1..NumBuyers |-> IdleBuyer]
    /\ claimer = << >>
    /\ scanner = << >>
    /\ hook = << >>
    /\ payer = << >>
    /\ quote = NoQuote
    /\ response = NoResponse

Next ==
    \/ \E p \in Buyers, req \in ShopRequests : PurchaseStart(p, req)
    \/ \E p \in Buyers : PurchaseLockEvent(p)
    \/ \E p \in Buyers : PurchasePromo(p)
    \/ \E p \in Buyers : PurchaseCommit(p)
    \/ \E p \in Buyers : PurchaseTxDrop(p)
    \/ \E e \in {"e1", "e2"}, code \in Codes : PromoServiceValidate(e, code)

Spec == Init /\ [][Next]_vars

\* ------------------------------------- claims beside purchases: SpecClaim
ClaimShopRequests ==
    { Request("u1", "e2", 1, None, None, "paystack"),
      Request("u2", "e1", 2, None, None, "stripe"),
      Request("u1", "e3", 1, None, None, "paystack"),
      Request("u2", "e2", 1, Some("VIP50"), None, "stripe"),
      Request("u2", "e2", 2, None, None, "stripe") }

InitClaim ==
    /\ InitDb
    /\ buyer = [p \in 1..NumSideBuyers |-> IdleBuyer]
    /\ claimer = [c \in 1..NumClaimers |-> IdleClaimer]
    /\ scanner = << >>
    /\ hook = << >>
    /\ payer = << >>
    /\ quote = NoQuote
    /\ response = NoResponse

NextClaim ==
    \/ \E p \in Buyers, req \in ClaimShopRequests : PurchaseStart(p, req)
    \/ \E p \in Buyers : PurchaseLockEvent(p)
    \/ \E p \in Buyers : PurchasePromo(p)
    \/ \E p \in Buyers : PurchaseCommit(p)
    \/ \E p \in Buyers : PurchaseTxDrop(p)
    \/ \E c \in Claimers, u \in Users, e \in Events : ClaimGetEvent(c, u, e)
    \/ \E c \in Claimers : ClaimCheckUser(c)
    \/ \E c \in Claimers : ClaimCreate(c)

SpecClaim == InitClaim /\ [][NextClaim]_vars

\* -------------------------------------------- pricing alone: SpecPrice
\* Unit prices in hundredths, and whole discount percentages written with
\* no fractional digit (20) or with two (20.00).
UnitPrices == { Dec(0, 2), Dec(1, 2), Dec(99, 2), Dec(1999, 2), Dec(10000, 2) }

Percents == 0..100

MaxRuns == 3

PriceTicket ==
    /\ quote.runs < MaxRuns
    /\ quote' = [quote EXCEPT
         !.total_price = TotalPrice(quote.unit_price, quote.quantity,
                                    quote.discount),
         !.runs = @ + 1]
    /\ UNCHANGED << db, lock, buyer, claimer, scanner, hook, payer,
                    promo_check, config, response >>

InitPrice ==
    /\ InitDb
    /\ buyer = << >>
    /\ claimer = << >>
    /\ scanner = << >>
    /\ hook = << >>
    /\ payer = << >>
    /\ \E u \in UnitPrices, q \in 1..10, d \in Percents, s \in {0, 2} :
         quote = [NoQuote EXCEPT !.unit_price = u, !.quantity = q,
                                 !.discount = Dec(d * Pow10(s), s)]
    /\ response = NoResponse

NextPrice == PriceTicket

SpecPrice == InitPrice /\ [][NextPrice]_vars

\* ------------------------------------------------- the gate: SpecGate
\* One purchase, then scans of its ticket and webhook deliveries about its
\* payment reference, in any interleaving.
GateRequests ==
    { Request("u1", "e1", 1, None, None, "paystack"),
      Request("u2", "e2", 1, None, None, "stripe") }

Scanners == DOMAIN scanner

Hooks == DOMAIN hook

Payers == DOMAIN payer

\* The ticket ids a gate device sends: those printed on tickets, and one
\* that no ticket carries.
ScannedIds ==
    { tickets[i].ticket_id : i \in DOMAIN tickets }
        \cup { TicketIdStr(0, "e1") }

\* The payment references of the tickets sold so far.
IssuedRefs == { tickets[i].payment_ref[1] : i \in DOMAIN tickets }

PaystackSuccess(reference) ==
    Body("paystack", "charge.success", reference, 10000)

StripeSuccess(reference) ==
    Body("stripe", "checkout.session.completed", reference, 10000)

\* The success deliveries of both providers about a reference.
SuccessDeliveries(reference) ==
    { Delivery("paystack", PaystackSuccess(reference),
               Hmac(config.paystack_webhook_secret,
                    PaystackSuccess(reference))),
      Delivery("stripe", StripeSuccess(reference), NoSignature) }

\* Deliveries that are not handled as a success: a forged signature, another
\* event type, a body that is not JSON.
OtherDeliveries ==
    { Delivery("paystack", PaystackSuccess(PaymentRef(1)),
               Hmac("guess", PaystackSuccess(PaymentRef(1)))),
      Delivery("paystack", Body("paystack", "charge.failed", PaymentRef(1), 0),
               Hmac(config.paystack_webhook_secret,
                    Body("paystack", "charge.failed", PaymentRef(1), 0))),
      Delivery("stripe", Body("garbage", "", NoRef, 0), NoSignature) }

Deliveries ==
    UNION { SuccessDeliveries(r) : r \in IssuedRefs } \cup OtherDeliveries

InitGate ==
    /\ InitDb
    /\ buyer = [p \in 1..NumSideBuyers |-> IdleBuyer]
    /\ claimer = << >>
    /\ scanner = [s \in 1..NumScanners |-> IdleScanner]
    /\ hook = [h \in 1..NumHooks |-> IdleHook]
    /\ payer = << >>
    /\ quote = NoQuote
    /\ response = NoResponse

NextGate ==
    \/ \E p \in Buyers, req \in GateRequests : PurchaseStart(p, req)
    \/ \E p \in Buyers : PurchaseLockEvent(p)
    \/ \E p \in Buyers : PurchasePromo(p)
    \/ \E p \in Buyers : PurchaseCommit(p)
    \/ \E s \in Scanners, id \in ScannedIds : MarkUsedCas(s, id)
    \/ \E s \in Scanners : MarkUsedLog(s)
    \/ \E h \in Hooks, d \in Deliveries : PaystackWebhook(h, d)
    \/ \E h \in Hooks, d \in Deliveries : StripeWebhook(h, d)
    \/ \E h \in Hooks : WebhookSettle(h)
    \/ \E h \in Hooks : WebhookActivate(h)

SpecGate == InitGate /\ [][NextGate]_vars

\* ------------------------------- the ticket shop with faults: SpecFault
\* The purchases of the ticket shop against a database whose statements
\* may fail.
NextFault ==
    \/ \E p \in Buyers, req \in ShopRequests : PurchaseStart(p, req)
    \/ \E p \in Buyers : PurchaseLockEvent(p)
    \/ \E p \in Buyers : PurchasePromo(p)
    \/ \E p \in Buyers : PurchaseCommit(p)
    \/ \E p \in Buyers : PurchaseTxDrop(p)
    \/ \E p \in Buyers : PurchaseBeginFails(p)
    \/ \E p \in Buyers : PurchasePromoFails(p)
    \/ \E p \in Buyers : PurchaseInsertFails(p)
    \/ \E p \in Buyers : PurchaseCommitFails(p)

SpecFault == Init /\ [][NextFault]_vars

\* Purchases for one event with a single ticket left and for a closed
\* event, with SQL errors, on a runtime that goes on polling every request
\* (tokio) and a database that goes on serving every statement: the
\* SELECT ... FOR UPDATE of a purchase returns once the row's lock is free
\* and stays free, each later statement returns, and a dropped transaction
\* is rolled back.  SQL errors may happen and need not.
LiveRequests ==
    { Request("u1", "e2", 1, None, None, "stripe"),
      Request("u2", "e2", 1, Some("SAVE20"), None, "paystack"),
      Request("u2", "e2", 1, Some("VIP50"), None, "paystack"),
      Request("u1", "e3", 1, None, None, "paystack") }

NextLive ==
    \/ \E p \in Buyers, req \in LiveRequests : PurchaseStart(p, req)
    \/ \E p \in Buyers : PurchaseLockEvent(p)
    \/ \E p \in Buyers : PurchasePromo(p)
    \/ \E p \in Buyers : PurchaseCommit(p)
    \/ \E p \in Buyers : PurchaseTxDrop(p)
    \/ \E p \in Buyers : PurchaseBeginFails(p)
    \/ \E p \in Buyers : PurchasePromoFails(p)
    \/ \E p \in Buyers : PurchaseInsertFails(p)
    \/ \E p \in Buyers : PurchaseCommitFails(p)

SpecLive ==
    /\ Init
    /\ [][NextLive]_vars
    /\ \A p \in 1..NumBuyers :
          /\ WF_vars(PurchaseLockEvent(p))
          /\ WF_vars(PurchasePromo(p))
          /\ WF_vars(PurchaseCommit(p))
          /\ WF_vars(PurchaseTxDrop(p))

\* --------------------------------------------- the checkout: SpecPay
\* One purchase, then payment initialisations for its ticket and webhook
\* deliveries about its payment reference, in any interleaving.
PayProviders == {"paystack", "stripe", "cash"}

InitPay ==
    /\ InitDb
    /\ buyer = [p \in 1..NumSideBuyers |-> IdleBuyer]
    /\ claimer = << >>
    /\ scanner = << >>
    /\ hook = [h \in 1..NumHooks |-> IdleHook]
    /\ payer = [y \in 1..NumPayers |-> IdlePayer]
    /\ quote = NoQuote
    /\ response = NoResponse

NextPay ==
    \/ \E p \in Buyers, req \in GateRequests : PurchaseStart(p, req)
    \/ \E p \in Buyers : PurchaseLockEvent(p)
    \/ \E p \in Buyers : PurchasePromo(p)
    \/ \E p \in Buyers : PurchaseCommit(p)
    \/ \E y \in Payers, u \in Users, t \in 1..NumSideBuyers,
          pr \in PayProviders : InitializeRead(y, u, t, pr)
    \/ \E y \in Payers, answered \in BOOLEAN :
          InitializeProviderCall(y, answered)
    \/ \E y \in Payers : InitializeRecord(y)
    \/ \E h \in Hooks, d \in Deliveries : PaystackWebhook(h, d)
    \/ \E h \in Hooks, d \in Deliveries : StripeWebhook(h, d)
    \/ \E h \in Hooks : WebhookSettle(h)
    \/ \E h \in Hooks : WebhookActivate(h)

SpecPay == InitPay /\ [][NextPay]_vars

\* ------------------------------- checkout never confirmed: SpecAbandon
\* The checkout when no provider ever calls a webhook: purchases and
\* payment initialisations only, and every request that has started is
\* served to its end.
NextAbandon ==
    \/ \E p \in Buyers, req \in GateRequests : PurchaseStart(p, req)
    \/ \E p \in Buyers : PurchaseLockEvent(p)
    \/ \E p \in Buyers : PurchasePromo(p)
    \/ \E p \in Buyers : PurchaseCommit(p)
    \/ \E y \in Payers, u \in Users, t \in 1..NumSideBuyers,
          pr \in PayProviders : InitializeRead(y, u, t, pr)
    \/ \E y \in Payers, answered \in BOOLEAN :
          InitializeProviderCall(y, answered)
    \/ \E y \in Payers : InitializeRecord(y)

SpecAbandon == InitPay /\ [][NextAbandon]_vars /\ WF_vars(NextAbandon)

\* ------------------------------------- the whole repository: SpecRepo
\* The gate, and TicketRepository::update_payment_status called with the
\* two statuses its documentation names.
NextRepo ==
    \/ NextGate
    \/ \E r \in IssuedRefs, st \in {"valid", "failed"} :
          UpdatePaymentStatus(r, st)

SpecRepo == InitGate /\ [][NextRepo]_vars

\* ------------------------------------------- error replies: SpecError
\* Any AppError a handler can return, turned into its HTTP response.
Texts ==
    { "Quantity must be between 1 and 10", "Event not found",
      "Invalid or expired promo code", "Event is not free",
      "Promo code already exists for this event",
      "Paystack request failed: connection refused",
      "error returned from database: deadlock detected" }

AppErrors ==
    { AppError(v, t) :
        v \in {"NotFound", "Validation", "BadRequest", "Conflict",
               "PromoInvalid", "PaymentFailed", "Database", "Internal"},
        t \in Texts }
      \cup { AppError(v, "") :
               v \in {"Unauthorized", "Forbidden", "TicketsExhausted",
                      "TicketAlreadyUsed"} }

InitError ==
    /\ InitDb
    /\ buyer = << >>
    /\ claimer = << >>
    /\ scanner = << >>
    /\ hook = << >>
    /\ payer = << >>
    /\ quote = NoQuote
    /\ \E e \in AppErrors : response = [NoResponse EXCEPT !.error = e]

NextError == Respond

SpecError == InitError /\ [][NextError]_vars

\* ------------------------------------------- the webhook door: SpecHook
\* One purchase and one payment initialisation, and webhook requests of
\* every kind: either endpoint, any body, any signature header, against a
\* deployment with webhook secrets or one without.
NumSenders == 1

\* Config::from_env with no payment variable set: every secret is "".
DevConfig ==
    [paystack_secret_key |-> "", stripe_secret_key |-> "",
     paystack_webhook_secret |-> "", stripe_webhook_secret |-> ""]

HookConfigs == { DeployedConfig, DevConfig }

\* The webhook secret configured for a provider.
ProviderSecret(cfg, provider) ==
    IF provider = "paystack" THEN cfg.paystack_webhook_secret
    ELSE cfg.stripe_webhook_secret

\* The bodies sent about a reference.
HookBodies(reference) ==
    { PaystackSuccess(reference), StripeSuccess(reference),
      Body("paystack", "charge.failed", reference, 10000),
      Body("stripe", "payment_intent.created", reference, 10000),
      Body("garbage", "", NoRef, 0) }

\* The signature headers sent with a body: none, the provider's own, one
\* made with a guessed secret.
HookSignatures(provider, body) ==
    { NoSignature, Hmac(ProviderSecret(DeployedConfig, provider), body),
      Hmac("guess", body) }

HookDeliveries ==
    { Delivery(pr, b, sig) :
        pr \in {"paystack", "stripe"},
        b \in UNION { HookBodies(r) : r \in IssuedRefs \cup {PaymentRef(0)} },
        sig \in UNION { HookSignatures(q, c) :
                  q \in {"paystack", "stripe"},
                  c \in UNION { HookBodies(r) :
                                  r \in IssuedRefs \cup {PaymentRef(0)} } } }

HookRequests == { Request("u1", "e1", 1, None, None, "paystack") }

InitHook ==
    /\ available = [e \in Events |-> Capacity(e)]
    /\ tickets = << >>
    /\ payments = << >>
    /\ scan_log = << >>
    /\ promos = PromoTable
    /\ now = 2
    /\ lock = [e \in Events |-> 0]
    /\ promo_check = NoAnswer
    /\ config \in HookConfigs
    /\ buyer = [p \in 1..NumSideBuyers |-> IdleBuyer]
    /\ claimer = << >>
    /\ scanner = << >>
    /\ hook = [h \in 1..NumSenders |-> IdleHook]
    /\ payer = [y \in 1..NumSenders |-> IdlePayer]
    /\ quote = NoQuote
    /\ response = NoResponse

NextHook ==
    \/ \E p \in Buyers, req \in HookRequests : PurchaseStart(p, req)
    \/ \E p \in Buyers : PurchaseLockEvent(p)
    \/ \E p \in Buyers : PurchasePromo(p)
    \/ \E p \in Buyers : PurchaseCommit(p)
    \/ \E y \in Payers, pr \in {"paystack", "stripe"} :
          InitializeRead(y, "u1", 1, pr)
    \/ \E y \in Payers : InitializeProviderCall(y, TRUE)
    \/ \E y \in Payers : InitializeRecord(y)
    \/ \E h \in Hooks, d \in HookDeliveries : PaystackWebhook(h, d)
    \/ \E h \in Hooks, d \in HookDeliveries : StripeWebhook(h, d)
    \/ \E h \in Hooks : WebhookSettle(h)
    \/ \E h \in Hooks : WebhookActivate(h)

SpecHook == InitHook /\ [][NextHook]_vars

\* ---------------------------------------- the scanner desk: SpecScan
\* Validations and mark-used calls against a tickets table that holds two
\* tickets of any status.
TicketStatuses == {"pending", "valid", "used", "cancelled", "failed"}

\* A tickets row as it stands in the table with a given status; a used
\* ticket was scanned at time 1.
StoredTicket(n, user, event, status) ==
    [TicketRow(Bind(event, user, TicketIdStr(n, event), 1,
                    EventPrice(event), EventPrice(event)),
               DecZero, None, Some(PaymentRef(n)), "paystack")
       EXCEPT !.status = status,
              !.scanned_at = IF status = "used" THEN 1 ELSE 0]

InitScan ==
    /\ available = [e \in Events |-> Capacity(e) - 1]
    /\ \E s1 \in TicketStatuses, s2 \in TicketStatuses :
         tickets = << StoredTicket(1, "u1", "e1", s1),
                      StoredTicket(2, "u2", "e2", s2) >>
    /\ payments = << >>
    /\ scan_log = << >>
    /\ promos = PromoTable
    /\ now = 2
    /\ lock = [e \in Events |-> 0]
    /\ promo_check = NoAnswer
    /\ config = DeployedConfig
    /\ buyer = << >>
    /\ claimer = << >>
    /\ scanner = [s \in 1..NumScanners |-> IdleScanner]
    /\ hook = << >>
    /\ payer = << >>
    /\ quote = NoQuote
    /\ response = NoResponse

NextScan ==
    \/ \E s \in Scanners, id \in ScannedIds, e \in {"e1", "e2"} :
          ValidateByTicketId(s, id, e)
    \/ \E s \in Scanners, id \in ScannedIds : MarkUsedCas(s, id)
    \/ \E s \in Scanners : MarkUsedLog(s)

SpecScan == InitScan /\ [][NextScan]_vars

\* ------------------------------- the gate with a failing log: SpecAudit
\* The scans of SpecScan when the audit INSERT may fail.
NextAudit ==
    \/ NextScan
    \/ \E s \in Scanners : MarkUsedLogFails(s)

SpecAudit == InitScan /\ [][NextAudit]_vars

\* ------------------------------- redelivered webhooks: SpecRetry
\* Success webhooks about the reference of a stored ticket whose payment
\* was initialised, against a database whose updates may fail; a request
\* answered with an error is sent again until it is acknowledged.  The
\* handlers go on, the provider goes on redelivering, and no update fails
\* for ever.
RetryDeliveries == SuccessDeliveries(PaymentRef(1))

InitRetry ==
    /\ available = [e \in Events |-> Capacity(e) - 1]
    /\ \E st \in {"pending", "valid", "used"} :
          tickets = << StoredTicket(1, "u1", "e1", st),
                       StoredTicket(2, "u2", "e2", "pending") >>
    /\ payments = << TransactionRow(1, "u1", "paystack", PaymentRef(1),
                                    Dec(10000, 2)) >>
    /\ scan_log = << >>
    /\ promos = PromoTable
    /\ now = 2
    /\ lock = [e \in Events |-> 0]
    /\ promo_check = NoAnswer
    /\ config = DeployedConfig
    /\ buyer = << >>
    /\ claimer = << >>
    /\ scanner = << >>
    /\ hook = [h \in 1..NumHooks |-> IdleHook]
    /\ payer = << >>
    /\ quote = NoQuote
    /\ response = NoResponse

\* The request a webhook call may carry: any, or the one being redelivered.
Carries(h, d) == hook[h].req.provider = "" \/ hook[h].req = d

NextRetry ==
    \/ \E h \in Hooks, d \in RetryDeliveries :
          Carries(h, d) /\ PaystackWebhook(h, d)
    \/ \E h \in Hooks, d \in RetryDeliveries :
          Carries(h, d) /\ StripeWebhook(h, d)
    \/ \E h \in Hooks : WebhookSettle(h)
    \/ \E h \in Hooks : WebhookActivate(h)
    \/ \E h \in Hooks : WebhookSettleFails(h)
    \/ \E h \in Hooks : WebhookActivateFails(h)
    \/ \E h \in Hooks : Redeliver(h)

SpecRetry ==
    /\ InitRetry
    /\ [][NextRetry]_vars
    /\ \A h \in 1..NumHooks :
          /\ WF_vars(Redeliver(h))
          /\ WF_vars(\E d \in RetryDeliveries :
                        /\ Carries(h, d)
                        /\ PaystackWebhook(h, d) \/ StripeWebhook(h, d))
          /\ SF_vars(WebhookSettle(h))
          /\ SF_vars(WebhookActivate(h))

\* ------------------------------------ the random draws: SpecDraw
\* Purchases for one event whose short_id (rand::random::<u16>()) and
\* pay_rand (rand::random::<u32>(), beside a timestamp of the same second)
\* are drawn from a small range, so that two purchases may draw the same
\* number; then scans and success webhooks about what was issued.
MaxDraw == 2

DrawRequests ==
    { Request("u1", "e1", 1, None, None, "paystack"),
      Request("u2", "e1", 1, None, None, "stripe") }

InitDraw ==
    /\ InitDb
    /\ buyer = [p \in 1..NumBuyers |-> IdleBuyer]
    /\ claimer = << >>
    /\ scanner = [s \in 1..NumSenders |-> IdleScanner]
    /\ hook = [h \in 1..NumSenders |-> IdleHook]
    /\ payer = << >>
    /\ quote = NoQuote
    /\ response = NoResponse

NextDraw ==
    \/ \E p \in Buyers, req \in DrawRequests : PurchaseStart(p, req)
    \/ \E p \in Buyers : PurchaseLockEvent(p)
    \/ \E p \in Buyers : PurchasePromo(p)
    \/ \E p \in Buyers, short_id \in 1..MaxDraw, pay_rand \in 1..MaxDraw :
          PurchaseIssue(p, short_id, pay_rand)
    \/ \E s \in Scanners, id \in ScannedIds : MarkUsedCas(s, id)
    \/ \E s \in Scanners : MarkUsedLog(s)
    \/ \E h \in Hooks, ref \in IssuedRefs :
          \E d \in SuccessDeliveries(ref) : PaystackWebhook(h, d)
    \/ \E h \in Hooks, ref \in IssuedRefs :
          \E d \in SuccessDeliveries(ref) : StripeWebhook(h, d)
    \/ \E h \in Hooks : WebhookSettle(h)
    \/ \E h \in Hooks : WebhookActivate(h)

SpecDraw == InitDraw /\ [][NextDraw]_vars

\* ------------------------------------- the paid amount: SpecAmount
\* One purchase of a priced ticket, its payment initialisation, and
\* success webhooks about its reference that report the price or less.
AmountRequests == { Request("u1", "e1", 1, None, None, "paystack") }

\* Success deliveries about a reference reporting the amount 1.
UnderpaidDeliveries(reference) ==
    { Delivery("paystack",
               Body("paystack", "charge.success", reference, 1),
               Hmac(config.paystack_webhook_secret,
                    Body("paystack", "charge.success", reference, 1))),
      Delivery("stripe",
               Body("stripe", "checkout.session.completed", reference, 1),
               NoSignature) }

NextAmount ==
    \/ \E p \in Buyers, req \in AmountRequests : PurchaseStart(p, req)
    \/ \E p \in Buyers : PurchaseLockEvent(p)
    \/ \E p \in Buyers : PurchasePromo(p)
    \/ \E p \in Buyers : PurchaseCommit(p)
    \/ \E y \in Payers, t \in 1..NumSideBuyers, pr \in {"paystack", "stripe"} :
          InitializeRead(y, "u1", t, pr)
    \/ \E y \in Payers : InitializeProviderCall(y, TRUE)
    \/ \E y \in Payers : InitializeRecord(y)
    \/ \E h \in Hooks, ref \in IssuedRefs :
          \E d \in SuccessDeliveries(ref) \cup UnderpaidDeliveries(ref) :
             PaystackWebhook(h, d)
    \/ \E h \in Hooks, ref \in IssuedRefs :
          \E d \in SuccessDeliveries(ref) \cup UnderpaidDeliveries(ref) :
             StripeWebhook(h, d)
    \/ \E h \in Hooks : WebhookSettle(h)
    \/ \E h \in Hooks : WebhookActivate(h)

SpecAmount == InitPay /\ [][NextAmount]_vars

\* --------------------------------------- repeated checkout: SpecReuse
\* Payment initialisations, repeated and concurrent, for two tickets in
\* the table: one that carries a payment reference and one whose
\* payment_ref column is NULL.
NumRetries == 3

StoredTickets ==
    << StoredTicket(1, "u1", "e1", "valid"),
       [StoredTicket(2, "u1", "e2", "valid") EXCEPT !.payment_ref = None] >>

InitReuse ==
    /\ available = [e \in Events |-> Capacity(e) - 1]
    /\ tickets = StoredTickets
    /\ payments = << >>
    /\ scan_log = << >>
    /\ promos = PromoTable
    /\ now = 2
    /\ lock = [e \in Events |-> 0]
    /\ promo_check = NoAnswer
    /\ config = DeployedConfig
    /\ buyer = << >>
    /\ claimer = << >>
    /\ scanner = << >>
    /\ hook = << >>
    /\ payer = [y \in 1..NumRetries |-> IdlePayer]
    /\ quote = NoQuote
    /\ response = NoResponse

NextReuse ==
    \/ \E y \in Payers, t \in DOMAIN tickets, pr \in {"paystack", "stripe"} :
          InitializeRead(y, "u1", t, pr)
    \/ \E y \in Payers, answered \in BOOLEAN :
          InitializeProviderCall(y, answered)
    \/ \E y \in Payers : InitializeRecord(y)

SpecReuse == InitReuse /\ [][NextReuse]_vars

\* ======================================================== properties
\* Sum of the quantities of the event's tickets that are not cancelled.
RECURSIVE HeldQuantity(_, _)
HeldQuantity(ts, e) ==
    IF ts = << >> THEN 0
    ELSE (IF Head(ts).event_id = e /\ Head(ts).status # "cancelled"
          THEN Head(ts).quantity ELSE 0) + HeldQuantity(Tail(ts), e)

BuyersOf(e) == { p \in Buyers : buyer[p].req.event_id = e }

\* A well-formed request for one ticket, without promo code.
PlainSingle(req) ==
    RequestValid(req) /\ req.quantity = 1 /\ ~IsSome(req.promo_code)

AllBuyersDone == \A p \in Buyers : buyer[p].pc = "done"

\* C1 -- no oversell.  The counter is never negative; while a purchase holds
\* the event's lock the count it read is the event's count; a purchase
\* succeeds only if that count covered its quantity and fails with
\* TicketsExhausted only if it did not; and when N > capacity one-ticket
\* purchases of one event have all returned, exactly capacity of them
\* succeeded, the other N - capacity got TicketsExhausted, and the counter
\* is 0.
NoOversell ==
    /\ \A e \in Events : available[e] >= 0
    /\ \A p \in Buyers :
         /\ buyer[p].pc \in {"locked", "priced"} =>
              /\ lock[buyer[p].req.event_id] = p
              /\ buyer[p].available = available[buyer[p].req.event_id]
         /\ buyer[p].result = "ok" =>
              buyer[p].available >= buyer[p].req.quantity
         /\ buyer[p].result = "TicketsExhausted" =>
              buyer[p].available < buyer[p].req.quantity
    /\ \A e \in Events :
         ( /\ AllBuyersDone
           /\ EventStatus(e) = "active"
           /\ \A p \in BuyersOf(e) : PlainSingle(buyer[p].req)
           /\ Cardinality(BuyersOf(e)) > Capacity(e) )
         => /\ Cardinality({ p \in BuyersOf(e) : buyer[p].result = "ok" })
                 = Capacity(e)
            /\ Cardinality({ p \in BuyersOf(e) :
                 buyer[p].result = "TicketsExhausted" })
                 = Cardinality(BuyersOf(e)) - Capacity(e)
            /\ available[e] = 0

\* More one-ticket purchases of e2 than it has tickets have all returned.
NoOversellCase ==
    /\ AllBuyersDone
    /\ BuyersOf("e2") = Buyers
    /\ \A p \in Buyers : PlainSingle(buyer[p].req)
    /\ Cardinality(Buyers) > Capacity("e2")
    /\ \E p \in Buyers : buyer[p].result = "TicketsExhausted"

\* C2 -- for every event, available_tickets = capacity minus the quantities
\* of its tickets that are not cancelled.
InventoryLedger ==
    \A e \in Events : available[e] = Capacity(e) - HeldQuantity(tickets, e)

\* A purchase of two tickets and a free claim have both been booked.
InventoryLedgerCase ==
    /\ \E i \in DOMAIN tickets : tickets[i].quantity = 2
    /\ \E i \in DOMAIN tickets : tickets[i].payment_provider = "free"
    /\ available["e1"] = 0

TicketsWithPromo(id) ==
    { i \in DOMAIN tickets : tickets[i].promo_code_id = Some(id) }

\* C6 -- the number of tickets sold with a promo's discount never exceeds
\* the promo's ticket_limit when that limit is positive.
PromoLimitRespected ==
    \A i \in DOMAIN promos :
        promos[i].ticket_limit > 0 =>
            Cardinality(TicketsWithPromo(promos[i].id))
                <= promos[i].ticket_limit

PromoRowsFor(event, code) ==
    { i \in DOMAIN promos :
        promos[i].event_id = event /\ promos[i].code = code }

\* C7 -- promo scoping.  A ticket carries a discount only from a promo row
\* of its own event that is active, unexpired and below its limit; a
\* purchase presenting a code that has no row for its event gets no ticket
\* (PromoInvalid once it passed the earlier checks); and /promos/validate
\* answers ok only from such a row of the event asked about.
PromoScoped ==
    /\ \A t \in DOMAIN tickets :
         IF IsSome(tickets[t].promo_code_id)
         THEN \E i \in DOMAIN promos :
                /\ promos[i].id = tickets[t].promo_code_id[1]
                /\ promos[i].event_id = tickets[t].event_id
                /\ promos[i].is_active
                /\ (promos[i].expires_at = 0 \/ promos[i].expires_at > now)
                /\ (promos[i].ticket_limit = 0
                      \/ promos[i].used_count < promos[i].ticket_limit)
                /\ tickets[t].discount_applied = promos[i].discount_percentage
         ELSE tickets[t].discount_applied = DecZero
    /\ \A p \in Buyers :
         ( /\ buyer[p].pc = "done"
           /\ IsSome(buyer[p].req.promo_code)
           /\ PromoRowsFor(buyer[p].req.event_id,
                           buyer[p].req.promo_code[1]) = {} )
         => /\ buyer[p].ticket = 0
            /\ buyer[p].result \in
                 {"PromoInvalid", "TicketsExhausted", "NotFound", "Validation"}
            /\ ( /\ RequestValid(buyer[p].req)
                 /\ EventStatus(buyer[p].req.event_id) = "active"
                 /\ buyer[p].available >= buyer[p].req.quantity )
               => buyer[p].result = "PromoInvalid"
    /\ promo_check.result = "ok" =>
         \E i \in PromoRowsFor(promo_check.event_id, promo_check.code) :
            /\ promos[i].is_active
            /\ promo_check.discount = promos[i].discount_percentage
    /\ ( /\ promo_check.code # ""
         /\ PromoRowsFor(promo_check.event_id, promo_check.code) = {} )
       => promo_check.result = "PromoInvalid"

\* SAVE20 exists for e1 only: a purchase for e2 presenting it was rejected
\* while a purchase for e1 got its discount, and /promos/validate refused
\* the code for e2.
PromoScopedCase ==
    /\ \E p \in Buyers :
         /\ buyer[p].req.event_id = "e2"
         /\ buyer[p].req.promo_code = Some("SAVE20")
         /\ buyer[p].result = "PromoInvalid"
    /\ \E t \in DOMAIN tickets : tickets[t].promo_code_id = Some(1)
    /\ promo_check.event_id = "e2"
    /\ promo_check.code = "SAVE20"
    /\ promo_check.result = "PromoInvalid"

\* The discount of a quote as a whole percentage.
QuotePercent == quote.discount.m \div Pow10(quote.discount.s)

\* C8 -- pricing.  For every unit price, quantity 1..10 and percentage
\* 0..100, each computation of the total gives exactly
\* unit_price * quantity * (100 - pct) / 100, and 100.00 x 2 at 20% is
\* exactly 160.00.
PricingExact ==
    quote.runs > 0 =>
        /\ DecEq(quote.total_price,
                 Dec(quote.unit_price.m * quote.quantity * (100 - QuotePercent),
                     quote.unit_price.s + 2))
        /\ ( /\ DecEq(quote.unit_price, Dec(10000, 2))
             /\ quote.quantity = 2
             /\ QuotePercent = 20 )
           => DecEq(quote.total_price, Dec(16000, 2))

\* 100.00 x 2 at 20.00% has been priced repeatedly.
PricingExactCase ==
    /\ quote.runs = MaxRuns
    /\ quote.unit_price = Dec(10000, 2)
    /\ quote.quantity = 2
    /\ quote.discount = Dec(2000, 2)
    /\ DecEq(quote.total_price, Dec(16000, 2))

\* The mark-used calls on a ticket id that changed a row.
ScansWon(id) ==
    { s \in Scanners :
        /\ scanner[s].ticket_id = id
        /\ (scanner[s].pc = "log" \/ scanner[s].result = "ok") }

\* The audit entries of ticket i.
LogEntries(i) ==
    { k \in DOMAIN scan_log :
        scan_log[k].ticket = i /\ scan_log[k].result = "valid" }

UsedStaysUsed ==
    [][\A i \in DOMAIN tickets :
          tickets[i].status = "used" => tickets'[i].status = "used"]_vars

\* Success webhooks of both providers ran their activation on the payment
\* reference of a ticket that had been scanned: no row matched, and the
\* ticket is still used.
UsedStaysUsedCase ==
    \E i \in DOMAIN tickets :
        /\ tickets[i].status = "used"
        /\ \A pr \in {"paystack", "stripe"} :
             \E h \in Hooks :
                /\ hook[h].pc = "done"
                /\ hook[h].req.provider = pr
                /\ hook[h].req \in SuccessDeliveries(tickets[i].payment_ref[1])
                /\ hook[h].result = "ok"
                /\ hook[h].ticket_rows = 0

\* The state of tickets and payment transactions after a success delivery
\* has been handled in full.
Handled(db2, d) ==
    [payments |-> SettleTransactions(db2.payments, d.body.data.reference,
                                     ProviderResponse(d)),
     tickets |-> ActivateTickets(db2.tickets, d.body.data.reference)]

\* The state after two handlers of one delivery ran with their statements
\* interleaved: both settle statements, then both activations.
HandledInterleaved(db2, d) ==
    LET r == d.body.data.reference
        pr == ProviderResponse(d)
    IN  [payments |-> SettleTransactions(
                         SettleTransactions(db2.payments, r, pr), r, pr),
         tickets |-> ActivateTickets(ActivateTickets(db2.tickets, r), r)]

RowsOf(ps, reference) ==
    { i \in DOMAIN ps : ps[i].provider_ref = reference }

\* C5 -- webhook idempotence.  From every reachable state and for every
\* success delivery of either provider, handling the delivery twice, one
\* after the other or interleaved, gives the tickets and payment
\* transactions that handling it once gives; the ticket of the reference is
\* valid, no transaction row is added, and the reference has at most one;
\* and once a handler of the delivery has returned after settling the
\* reference's row, handling the delivery again changes nothing.
WebhookIdempotent ==
    \A r \in IssuedRefs : \A d \in SuccessDeliveries(r) :
        LET s0 == [payments |-> payments, tickets |-> tickets]
            once == Handled(s0, d)
        IN  /\ Handled(once, d) = once
            /\ HandledInterleaved(s0, d) = once
            /\ Len(once.payments) = Len(payments)
            /\ Cardinality(RowsOf(once.payments, r)) <= 1
            /\ \A i \in RowsOf(once.payments, r) :
                 once.payments[i].status = "success"
            /\ \A i \in DOMAIN once.tickets :
                 once.tickets[i].payment_ref = Some(r)
                    => once.tickets[i].status = "valid"
            /\ \A h \in Hooks :
                 (hook[h].pc = "done" /\ hook[h].req = d)
                 => /\ once.tickets = tickets
                    /\ hook[h].tx_rows > 0 => once.payments = payments

\* The same success delivery has been handled twice after the payment was
\* initialised: one transaction row, settled, and the ticket valid.
WebhookIdempotentCase ==
    \E g \in Hooks, h \in Hooks :
        /\ g # h
        /\ hook[g].pc = "done" /\ hook[h].pc = "done"
        /\ hook[g].req = hook[h].req
        /\ hook[g].result = "ok"
        /\ hook[g].tx_rows = 1 /\ hook[h].tx_rows = 1
        /\ hook[g].reference \in IssuedRefs
        /\ Cardinality(RowsOf(payments, hook[g].reference)) = 1
        /\ \A i \in RowsOf(payments, hook[g].reference) :
             payments[i].status = "success"
        /\ \E i \in DOMAIN tickets :
             /\ tickets[i].payment_ref = Some(hook[g].reference)
             /\ tickets[i].status = "valid"

\* The transitions of a ticket's status that are allowed.
ForwardTransitions ==
    { << "pending", "valid" >>, << "valid", "used" >>,
      << "pending", "cancelled" >>, << "pending", "failed" >> }

OneRowPerRef ==
    /\ [](\A i \in DOMAIN payments, j \in DOMAIN payments :
            payments[i].provider_ref = payments[j].provider_ref => i = j)
    /\ [][(hook' # hook) => Len(payments') = Len(payments)]_vars

\* Every payer initialised payment for the same ticket with success, and a
\* webhook settled the one row there is.
OneRowPerRefCase ==
    /\ Cardinality(Payers) > 1
    /\ \A y \in Payers :
         /\ payer[y].pc = "done" /\ payer[y].result = "ok"
         /\ payer[y].ticket = 1
    /\ Len(payments) = 1
    /\ payments[1].status = "success"
    /\ \E h \in Hooks :
         /\ hook[h].pc = "done"
         /\ hook[h].tx_rows = 1
         /\ hook[h].reference = payments[1].provider_ref

\* The request's signature header is the HMAC of its exact body under the
\* receiving provider's non-empty secret.
Signed(req) ==
    /\ ProviderSecret(config, req.provider) # ""
    /\ req.signature = Hmac(ProviderSecret(config, req.provider), req.body)

\* The tables a webhook may write.
Ledger == << tickets, payments >>

\* On one provider's endpoint: with a non-empty secret, a request whose
\* signature is absent or wrong is answered Unauthorized, parsed or not,
\* and Unauthorized is answered for nothing else.
BadSignatureRefused(provider) ==
    \A h \in Hooks :
        (hook[h].pc # "idle" /\ hook[h].req.provider = provider) =>
            /\ (ProviderSecret(config, provider) # "" /\ ~Signed(hook[h].req))
                  => (hook[h].pc = "done" /\ hook[h].result = "Unauthorized")
            /\ hook[h].result = "Unauthorized" =>
                  (ProviderSecret(config, provider) # "" /\ ~Signed(hook[h].req))

\* C11 -- signature failure.  With a non-empty webhook secret, a webhook
\* whose signature header is absent or is not the HMAC of the raw body is
\* answered Unauthorized whether or not the body parses, handling it
\* changes no ticket and no payment transaction, and Unauthorized is the
\* answer to nothing but a signature failure.
UnauthorizedOnBadSignature ==
    /\ [](\A pr \in {"paystack", "stripe"} : BadSignatureRefused(pr))
    /\ [][\A h \in Hooks :
            ( /\ hook'[h] # hook[h]
              /\ ProviderSecret(config, hook'[h].req.provider) # ""
              /\ ~Signed(hook'[h].req) )
            => Ledger' = Ledger]_vars

\* C12 -- verified before trusted.  On either endpoint, a step of a webhook
\* handler changes a ticket or a payment transaction only if the request's
\* signature was the HMAC of its body under that provider's secret.
OnlySignedWebhooksWrite ==
    [][\A h \in Hooks :
          (hook'[h] # hook[h] /\ Ledger' # Ledger) => Signed(hook[h].req)]_vars

\* The event type a request carries for the endpoint it was sent to, when
\* its body is an event of that provider.
IsProviderEvent(req) == req.body.format = req.provider

\* C13 -- ignored event types.  A webhook with a verified signature whose
\* body is an event of the provider of a type other than the provider's
\* payment-succeeded type is answered ok in one step, and that step leaves
\* tickets, payment transactions and available_tickets unchanged.
OtherEventsIgnored ==
    /\ [](\A h \in Hooks :
            ( /\ hook[h].pc # "idle"
              /\ Signed(hook[h].req)
              /\ IsProviderEvent(hook[h].req)
              /\ hook[h].req.body.event \notin
                    {"charge.success", "checkout.session.completed"} )
            => /\ hook[h].pc = "done"
               /\ hook[h].result = "ok"
               /\ hook[h].tx_rows = 0 /\ hook[h].ticket_rows = 0)
    /\ [][\A h \in Hooks :
            ( /\ hook'[h] # hook[h]
              /\ Signed(hook'[h].req)
              /\ IsProviderEvent(hook'[h].req)
              /\ hook'[h].req.body.event \notin
                    {"charge.success", "checkout.session.completed"} )
            => /\ Ledger' = Ledger
               /\ available' = available]_vars

\* After the payment was initialised, a signed charge.failed on the Paystack
\* endpoint was answered ok and the transaction is still pending.
OtherEventsIgnoredCase ==
    /\ Len(payments) = 1
    /\ payments[1].status = "pending"
    /\ \E h \in Hooks :
         /\ hook[h].pc = "done"
         /\ hook[h].result = "ok"
         /\ Signed(hook[h].req)
         /\ hook[h].req.provider = "paystack"
         /\ hook[h].req.body = Body("paystack", "charge.failed",
                                    payments[1].provider_ref, 10000)

\* The answer a validation gave is the one the claim prescribes for row i.
AnswersRow(scan, i) ==
    LET t == tickets[i]
    IN  CASE t.status = "used" ->
               /\ scan.result = "already_used"
               /\ scan.ticket = Some([ticket_id |-> t.ticket_id,
                                      user_name |-> t.user_id,
                                      quantity |-> t.quantity,
                                      scanned_at |-> Some(t.scanned_at)])
          [] t.status = "valid" ->
               /\ scan.result = "valid"
               /\ IsSome(scan.ticket)
               /\ scan.ticket[1].ticket_id = t.ticket_id
               /\ scan.ticket[1].user_name = t.user_id
               /\ scan.ticket[1].quantity = t.quantity
          [] OTHER ->
               /\ scan.result = "invalid"
               /\ scan.ticket = None
               /\ scan.message = Some(<< "Ticket status is", t.status >>)

\* C14 -- scan classification.  Every validation answers from the lookup by
\* (ticket_id, event_id) and the status alone: no row, or a row of another
\* event, gives invalid without a ticket record; used gives already_used
\* with the stored scanned_at and the holder; valid gives valid with the
\* ticket's info; pending, cancelled and failed give invalid without a
\* record and a message that names the status.
ScanClassified ==
    [][\A s \in Scanners :
          (scanner[s].pc = "idle" /\ scanner'[s].result = "scanned") =>
             LET rows == { i \in DOMAIN tickets :
                             /\ tickets[i].ticket_id = scanner'[s].ticket_id
                             /\ tickets[i].event_id = scanner'[s].event_id }
             IN  /\ scanner'[s].pc = "done"
                 /\ scanner'[s].scan.result
                        \in {"invalid", "already_used", "valid"}
                 /\ rows = {} =>
                      /\ scanner'[s].scan.result = "invalid"
                      /\ scanner'[s].scan.ticket = None
                 /\ rows # {} =>
                      \E i \in rows : AnswersRow(scanner'[s].scan, i)]_vars

\* One validation found a used ticket and returned its scan time, another
\* found a cancelled ticket and named that status.
ScanClassifiedCase ==
    /\ \E s \in Scanners :
         /\ scanner[s].scan.result = "already_used"
         /\ scanner[s].scan.ticket[1].scanned_at = Some(1)
    /\ \E s \in Scanners :
         /\ scanner[s].scan.result = "invalid"
         /\ scanner[s].scan.message = Some(<< "Ticket status is", "cancelled" >>)

\* The id of the scanner account that sends mark-used call s.
ScannerId(s) == << "scanner", s >>

\* C15 -- mark-used is one conditional update.  A call on a ticket id that
\* a valid ticket carries makes that ticket used with scanned_at = now and
\* scanned_by = the caller's id; a call on an id no valid ticket carries
\* returns TicketAlreadyUsed and leaves every ticket as it was.
MarkUsedConditional ==
    [][\A s \in Scanners :
          (scanner[s].pc = "idle" /\ scanner'[s].pc \in {"log", "done"}
             /\ scanner'[s].result # "scanned") =>
             LET id == scanner'[s].ticket_id
                 hit == { i \in DOMAIN tickets :
                            tickets[i].ticket_id = id
                               /\ tickets[i].status = "valid" }
             IN  /\ \A i \in hit :
                      /\ tickets'[i].status = "used"
                      /\ tickets'[i].scanned_at = now
                      /\ tickets'[i].scanned_by = Some(ScannerId(s))
                 /\ \A i \in DOMAIN tickets \ hit : tickets'[i] = tickets[i]
                 /\ hit = {} <=> scanner'[s].result = "TicketAlreadyUsed"]_vars

\* ------------------------------------------------ payment initialisation
\* C16 -- a provider call that fails is compensated before PaymentFailed
\* is returned: the step that answers PaymentFailed leaves the ticket
\* Failed or Cancelled and gives its quantity back to the event's
\* available count.
ProviderFailureCompensated ==
    [][\A y \in Payers :
          (payer[y].pc = "provider" /\ payer'[y].result = "PaymentFailed") =>
             LET n == payer[y].ticket
                 t == tickets[n]
             IN  /\ tickets'[n].status \in {"failed", "cancelled"}
                 /\ available'[t.event_id] =
                        available[t.event_id] + t.quantity]_vars

\* ------------------------------------------------- purchase validation
\* A request the specification calls invalid before anything else is
\* looked at.
Malformed(req) ==
    \/ req.quantity \notin 1..10
    \/ IsSome(req.excitement_rating) /\ req.excitement_rating[1] \notin 1..10
    \/ req.payment_provider \notin {"paystack", "stripe"}

Stock == << available, tickets, payments, promos >>

\* The errors a purchase returns.
PurchaseErrors ==
    {"Validation", "NotFound", "TicketsExhausted", "PromoInvalid",
     "Database"}

\* C18 -- a purchase that returns an error changes nothing: every step
\* of a purchase that leaves it with an error, or on the way to one,
\* leaves the available counts, the tickets, the payment transactions and
\* the promo rows (their used counts) as they were.
FailedPurchaseChangesNothing ==
    /\ [](\A p \in Buyers :
            buyer[p].pc = "done" => buyer[p].result \in
                                       PurchaseErrors \cup {"ok"})
    /\ [][\A p \in Buyers :
            (buyer'[p] # buyer[p] /\ buyer'[p].result # "ok") =>
               Stock' = Stock]_vars

\* A purchase with a promo code failed in storage after its price was
\* fixed, next to a purchase of the same event that went through.
FailedPurchaseChangesNothingCase ==
    \E p, q \in Buyers :
        /\ buyer[p].pc = "done"
        /\ buyer[p].result = "Database"
        /\ IsSome(buyer[p].promo_code_id)
        /\ buyer[q].pc = "done"
        /\ buyer[q].result = "ok"
        /\ Len(tickets) = 1
        /\ available["e1"] = Capacity("e1") - buyer[q].req.quantity

\* ------------------------------------------------ provider call and lock
\* C19 -- a provider call is made only for a purchase that has committed:
\* while a payment initialisation waits for the provider, the ticket it
\* pays for is in the table, the event's available count is debited by
\* the ticket's quantity, and the purchase that made the ticket is
\* finished and does not hold the event's lock.
ProviderCallOutsideLock ==
    \A y \in Payers :
        payer[y].pc = "provider" =>
           LET n == payer[y].ticket
           IN  /\ n \in DOMAIN tickets
               /\ available[tickets[n].event_id] <=
                     Capacity(tickets[n].event_id) - tickets[n].quantity
               /\ \A p \in Buyers :
                     buyer[p].ticket = n =>
                        /\ buyer[p].pc = "done"
                        /\ buyer[p].result = "ok"
                        /\ lock[tickets[n].event_id] # p

\* A provider call is in flight for the ticket of a finished purchase.
ProviderCallOutsideLockCase ==
    \E y \in Payers, p \in Buyers :
        /\ payer[y].pc = "provider"
        /\ buyer[p].ticket = payer[y].ticket
        /\ buyer[p].result = "ok"
        /\ \A e \in Events : lock[e] = 0

\* -------------------------------------------- the purchase's transaction
\* C20 -- a successful purchase leaves exactly one payment transaction
\* with the ticket's payment reference, pending, written in the commit
\* that wrote the ticket: the step that ends a purchase with ok adds that
\* row, and from then on exactly one row carries the reference.
PurchaseRecordsTransaction ==
    /\ [](\A p \in Buyers :
            buyer[p].result = "ok" =>
               LET ref == tickets[buyer[p].ticket].payment_ref[1]
               IN  Cardinality(RowsOf(payments, ref)) = 1)
    /\ [][\A p \in Buyers :
            (buyer[p].result # "ok" /\ buyer'[p].result = "ok") =>
               LET ref == tickets'[buyer'[p].ticket].payment_ref[1]
               IN  \E i \in RowsOf(payments', ref) :
                      payments'[i].status = "pending"]_vars

\* ------------------------------------------------- paid before admitted
\* The webhook calls that got as far as activating the tickets of a
\* reference.
Confirmations(reference) ==
    { h \in Hooks : hook[h].reference = reference
                       /\ hook[h].pc = "done" /\ hook[h].result = "ok" }

\* C21 -- a new ticket is pending; a ticket becomes valid only in the
\* activating step of a success webhook about its payment reference; and
\* so a ticket that is valid or used has had its payment confirmed.
PendingUntilConfirmed ==
    /\ [](\A i \in DOMAIN tickets :
            tickets[i].status \in {"valid", "used"} =>
               Confirmations(tickets[i].payment_ref[1]) # {})
    /\ [][/\ \A i \in DOMAIN tickets' \ DOMAIN tickets :
               tickets'[i].status = "pending"
          /\ \A i \in DOMAIN tickets :
               (tickets[i].status # "valid" /\ tickets'[i].status = "valid")
                  => \E h \in Hooks :
                        /\ hook[h].pc = "activate"
                        /\ hook'[h].pc = "done"
                        /\ Some(hook[h].reference) = tickets[i].payment_ref
         ]_vars

\* ------------------------------------------------------ reference reuse
\* The initialisations of a ticket that were answered with a reference.
Answered(n) ==
    { y \in Payers : payer[y].ticket = n /\ payer[y].pc = "done"
                        /\ payer[y].result = "ok" }

ReservationReclaimed ==
    \A e \in Events :
        (available[e] < Capacity(e)) ~> (available[e] = Capacity(e))

\* ---------------------------------------------------------- status codes
\* The status the specification gives each error outcome; 0 for the
\* variants it does not mention.
StableStatus(variant) ==
    CASE variant \in {"TicketsExhausted", "TicketAlreadyUsed"} -> 409
      [] variant \in {"PromoInvalid", "Validation"} -> 400
      [] variant = "Unauthorized" -> 401
      [] variant = "PaymentFailed" -> 502
      [] variant \in {"Database", "Internal"} -> 500
      [] OTHER -> 0

\* C24 -- every error outcome is sent with its stable status code, and a
\* storage or unexpected error with a generic Internal body that does not
\* carry the text of the underlying error.
StableStatusCodes ==
    response.sent =>
        /\ StableStatus(response.error.variant) # 0 =>
              response.reply.status = StableStatus(response.error.variant)
        /\ response.error.variant \in {"Database", "Internal"} =>
              /\ response.reply.code = "INTERNAL_ERROR"
              /\ response.reply.message # response.error.text

\* ------------------------------------------------------ one free ticket
\* The free tickets of a user for an event that are not cancelled.
FreeTickets(user, event) ==
    { i \in DOMAIN tickets :
        /\ tickets[i].user_id = user
        /\ tickets[i].event_id = event
        /\ tickets[i].payment_provider = "free"
        /\ tickets[i].status # "cancelled" }

\* C25 -- a user claims a free ticket at most once per event: whatever
\* the interleaving of claim-free requests, at most one free ticket that
\* is not cancelled exists for a user and an event.
ClaimOncePerEvent ==
    \A u \in Users, e \in Events : Cardinality(FreeTickets(u, e)) <= 1

\* ----------------------------------------------- tickets of live events
\* C26 -- no ticket exists for an event that is missing or not active: a
\* purchase of such an event ends NotFound, and a claim succeeds only for
\* an event that exists, is active, is free and had tickets available.
OnlyActiveEvents ==
    /\ [](/\ \A i \in DOMAIN tickets :
              /\ tickets[i].event_id \in Events
              /\ EventStatus(tickets[i].event_id) = "active"
          /\ \A p \in Buyers :
              (buyer[p].pc = "done" /\ RequestValid(buyer[p].req)
                 /\ ~(buyer[p].req.event_id \in Events
                        /\ EventStatus(buyer[p].req.event_id) = "active"))
                 => buyer[p].result = "NotFound")
    /\ [][\A c \in Claimers :
            (claimer[c].result # "ok" /\ claimer'[c].result = "ok") =>
               LET e == claimer[c].event_id
               IN  /\ e \in Events
                   /\ EventStatus(e) = "active"
                   /\ ~DecGtZero(EventPrice(e))
                   /\ available[e] > 0]_vars

\* ------------------------------------------------------ mutual exclusion
\* The purchases that are between taking the lock of e and the end of
\* their transaction.
InCriticalSection(e) ==
    { p \in Buyers : buyer[p].pc \in {"locked", "priced", "dropped"}
                        /\ buyer[p].req.event_id = e }

\* C27 -- at most one purchase at a time is inside the critical section
\* of an event, and it is the holder of the event's lock; a purchase
\* takes effect (its ticket is stored) only while it holds that lock; and
\* a purchase that waits at the lock of an event goes on as soon as that
\* lock is free, whatever purchases of other events hold.
MutualExclusion ==
    /\ [](/\ \A e \in Events :
              /\ Cardinality(InCriticalSection(e)) <= 1
              /\ \A p \in InCriticalSection(e) : lock[e] = p
          /\ \A p \in Buyers :
              (buyer[p].pc = "begin" /\ lock[buyer[p].req.event_id] = 0)
                 => ENABLED PurchaseLockEvent(p))
    /\ [][\A p \in Buyers :
            (buyer[p].result # "ok" /\ buyer'[p].result = "ok") =>
               /\ lock[buyer[p].req.event_id] = p
               /\ Len(tickets') = Len(tickets) + 1]_vars

\* Two purchases are inside the critical sections of two events at once.
MutualExclusionCase ==
    \E p, q \in Buyers :
        /\ buyer[p].pc = "priced" /\ buyer[p].req.event_id = "e1"
        /\ buyer[q].pc = "locked" /\ buyer[q].req.event_id = "e2"
        /\ lock["e1"] = p /\ lock["e2"] = q

\* ------------------------------------------------- who writes the count
\* C28 -- the available count of an event changes only in a step of the
\* purchase that holds the event's lock: no webhook, scan, mark-used,
\* payment initialisation or free claim changes it.
CountOwnedByPurchase ==
    [][\A e \in Events :
          available'[e] # available[e] =>
             \E p \in Buyers : lock[e] = p /\ buyer'[p] # buyer[p]]_vars

\* ------------------------------------------ purchases and claims together
\* The claims of an event that succeeded.
ClaimsWon(e) ==
    { c \in Claimers : claimer[c].event_id = e /\ claimer[c].result = "ok" }

\* C29 -- with purchases and free claims interleaved in any way, no
\* available count is negative and the quantities of an event's tickets
\* that are not cancelled never exceed its capacity; in particular the
\* claims that succeed for an event are never more than its capacity.
NeverNegative ==
    \A e \in Events :
        /\ available[e] >= 0
        /\ HeldQuantity(tickets, e) <= Capacity(e)
        /\ Cardinality(ClaimsWon(e)) <= Capacity(e)

\* Two users claimed the last ticket of an event at the same time: both
\* passed the checks, one got the ticket and the other's insert failed.
NeverNegativeCase ==
    \E c, d \in Claimers :
        /\ claimer[c].event_id = "e2" /\ claimer[d].event_id = "e2"
        /\ claimer[c].user_id # claimer[d].user_id
        /\ claimer[c].result = "ok"
        /\ claimer[d].pc = "done" /\ claimer[d].result = "Database"
        /\ available["e2"] = 0

\* ------------------------------------------------------ promo accounting
\* C30 -- the step that ends a purchase with a promo code successfully
\* adds exactly one to the used count of that promo, and no used count
\* exceeds a limit that is set.
PromoCounted ==
    /\ [](\A i \in DOMAIN promos :
            promos[i].ticket_limit > 0 =>
               promos[i].used_count <= promos[i].ticket_limit)
    /\ [][\A p \in Buyers :
            (buyer[p].result # "ok" /\ buyer'[p].result = "ok"
               /\ IsSome(buyer[p].promo_code_id)) =>
               \A i \in DOMAIN promos :
                  promos[i].id = buyer[p].promo_code_id[1] =>
                     promos'[i].used_count = promos[i].used_count + 1]_vars

\* ------------------------------------------------ best-effort audit log
\* C31 -- a mark-used call whose update changed a ticket is answered with
\* success whether or not the audit row was appended: the step after the
\* update answers ok and leaves the tickets alone, and the ticket of a
\* call that was answered ok is used.
AuditBestEffort ==
    /\ [](\A s \in Scanners :
            (scanner[s].pc = "done" /\ scanner[s].result # "scanned") =>
               /\ scanner[s].rows > 0 <=> scanner[s].result = "ok"
               /\ scanner[s].result = "ok" =>
                     \A i \in DOMAIN tickets :
                        tickets[i].ticket_id = scanner[s].ticket_id =>
                           tickets[i].status = "used")
    /\ [][\A s \in Scanners :
            (scanner[s].pc = "log" /\ scanner'[s].pc = "done") =>
               /\ scanner'[s].result = "ok"
               /\ tickets' = tickets]_vars

\* A mark-used call was answered ok, its ticket is used, and the audit
\* log has no row.
AuditBestEffortCase ==
    \E s \in Scanners :
        /\ scanner[s].pc = "done" /\ scanner[s].result = "ok"
        /\ scan_log = << >>
        /\ \E i \in DOMAIN tickets :
              /\ tickets[i].ticket_id = scanner[s].ticket_id
              /\ tickets[i].status = "used"
              /\ tickets[i].scanned_at = now

\* ------------------------------------------------ validation reads only
\* The validations that admitted the ticket with a given id.
Admitted(id) ==
    { s \in Scanners : scanner[s].result = "scanned"
                          /\ scanner[s].ticket_id = id
                          /\ scanner[s].scan.result = "valid" }

\* C32 -- a validation changes no table and no lock; a valid ticket of
\* the event asked about is answered valid; and a ticket stops being
\* valid only in the update step of a mark-used call.
ValidationReadsOnly ==
    [][/\ \A s \in Scanners :
            (scanner[s].pc = "idle" /\ scanner'[s].result = "scanned") =>
               /\ db' = db
               /\ lock' = lock
               /\ (\A i \in ScanLookup(tickets, scanner'[s].ticket_id,
                                        scanner'[s].event_id) :
                       tickets[i].status = "valid")
                     /\ ScanLookup(tickets, scanner'[s].ticket_id,
                                   scanner'[s].event_id) # {}
                   => scanner'[s].scan.result = "valid"
       /\ \A i \in DOMAIN tickets :
            (tickets[i].status = "valid" /\ tickets'[i].status # "valid") =>
               \E s \in Scanners :
                  /\ scanner[s].pc = "idle"
                  /\ scanner'[s].pc = "log"
                  /\ scanner'[s].ticket_id = tickets[i].ticket_id]_vars

\* Every scanner validated the same ticket, every one was answered valid,
\* and the ticket is still valid.
ValidationReadsOnlyCase ==
    \E i \in DOMAIN tickets :
        /\ Admitted(tickets[i].ticket_id) = Scanners
        /\ Cardinality(Scanners) > 1
        /\ tickets[i].status = "valid"
        /\ scan_log = << >>

\* ------------------------------------------------ acknowledged webhooks
\* The end state of one fully applied success delivery about a reference:
\* its transactions are settled and its tickets valid, or used.
Settled(reference) ==
    /\ \A i \in RowsOf(payments, reference) : payments[i].status = "success"
    /\ \A i \in DOMAIN tickets :
          tickets[i].payment_ref = Some(reference) =>
             tickets[i].status \in {"valid", "used"}

\* C33 -- a success webhook is acknowledged only in the step of its
\* second update, with both updates applied; a failed update is answered
\* with the Database error; and a delivery that is sent again until it is
\* acknowledged ends acknowledged, in the end state of one delivery.
AckAfterBothUpdates ==
    /\ [](\A h \in Hooks :
            (hook[h].pc = "done" /\ hook[h].reference # NoRef) =>
               /\ hook[h].result \in {"ok", "Database"}
               /\ hook[h].result = "ok" => Settled(hook[h].reference))
    /\ [][\A h \in Hooks :
            (hook'[h].pc = "done" /\ hook[h].pc # "done"
               /\ hook[h].reference # NoRef) =>
               (hook'[h].result = "ok" =>
                  (hook[h].pc = "activate" /\ tickets' =
                      ActivateTickets(tickets, hook[h].reference)))]_vars
    /\ \A h \in 1..NumHooks :
          (hook[h].pc = "settle") ~>
             (hook[h].pc = "done" /\ hook[h].result = "ok"
                /\ Settled(hook[h].reference))

\* A delivery was answered with an error after its first update: the
\* transaction is settled and the ticket is still pending.
AckAfterBothUpdatesCase ==
    \E h \in Hooks :
        /\ hook[h].pc = "done" /\ hook[h].result = "Database"
        /\ payments[1].status = "success"
        /\ tickets[1].status = "pending"

\* C34 -- verification skipped only without a secret.  With an empty
\* webhook secret no request is refused for its signature, and a request
\* whose signature is absent or is not the HMAC of its body gets past
\* verification, to the parsing of its payload, only when the endpoint's
\* secret is empty.
SkippedOnlyWithoutSecret ==
    \A h \in Hooks :
        hook[h].pc # "idle" =>
            /\ ProviderSecret(config, hook[h].req.provider) = ""
                  => hook[h].result # "Unauthorized"
            /\ (hook[h].result # "Unauthorized" /\ ~Signed(hook[h].req))
                  => ProviderSecret(config, hook[h].req.provider) = ""

\* The Paystack endpoint alone keeps C34: the part of the claim the code
\* implements.
SkippedOnlyWithoutSecretPaystack ==
    \A h \in Hooks :
        (hook[h].pc # "idle" /\ hook[h].req.provider = "paystack") =>
            /\ config.paystack_webhook_secret = ""
                  => hook[h].result # "Unauthorized"
            /\ (hook[h].result # "Unauthorized" /\ ~Signed(hook[h].req))
                  => config.paystack_webhook_secret = ""

\* --------------------------------------------------- generated values
\* C35 -- payment references are unique.  No two tickets carry the same
\* payment_ref, and the ticket UPDATE of one success webhook matches at
\* most one ticket.
PaymentRefsUnique ==
    /\ \A i, j \in DOMAIN tickets :
          (i # j /\ IsSome(tickets[i].payment_ref)) =>
             tickets[i].payment_ref # tickets[j].payment_ref
    /\ \A h \in Hooks : hook[h].ticket_rows <= 1

\* C36 -- one scan, one ticket.  No two tickets of an event carry the same
\* ticket_id, the UPDATE of one mark-used call affects at most one row,
\* and no step moves two tickets to used.
TicketIdsUnique ==
    /\ [](\A i, j \in DOMAIN tickets :
            (i # j /\ tickets[i].event_id = tickets[j].event_id) =>
               tickets[i].ticket_id # tickets[j].ticket_id)
    /\ [](\A s \in Scanners : scanner[s].rows <= 1)
    /\ [][Cardinality({ i \in DOMAIN tickets :
                          /\ tickets[i].status # "used"
                          /\ tickets'[i].status = "used" }) <= 1]_vars

\* ------------------------------------------- what a success webhook binds
\* C37 -- provider isolation.  The first UPDATE of a webhook changes only
\* transactions whose provider is that of the endpoint it arrived on, and
\* its second UPDATE matches only tickets bought through that provider.
ProviderIsolation ==
    [][\A h \in Hooks :
         /\ (hook[h].pc = "settle" /\ hook'[h].pc = "activate") =>
               \A i \in DOMAIN payments :
                  payments'[i] # payments[i] =>
                     payments[i].provider = hook[h].req.provider
         /\ (hook[h].pc = "activate" /\ hook'[h].pc = "done") =>
               \A i \in ActivateMatches(tickets, hook[h].reference) :
                  tickets[i].payment_provider = hook[h].req.provider]_vars

\* C38 -- settled stays settled.  Once a success webhook about a reference
\* was acknowledged, every transaction with that provider_ref has status
\* success, whenever its row was inserted.
SettledNeverPending ==
    \A h \in Hooks :
        (hook[h].pc = "done" /\ hook[h].result = "ok"
            /\ hook[h].reference # NoRef) =>
           \A i \in RowsOf(payments, hook[h].reference) :
              payments[i].status = "success"

\* C39 -- amount checked.  A success webhook settles a transaction, and
\* sets a ticket valid, only when the amount of its payload is the amount
\* recorded for the reference.
AmountChecked ==
    [][\A h \in Hooks :
         /\ (hook[h].pc = "settle" /\ hook'[h].pc = "activate") =>
               \A i \in DOMAIN payments :
                  payments'[i] # payments[i] =>
                     DecEq(Dec(hook[h].req.body.data.amount, 2),
                           payments[i].amount)
         /\ (hook[h].pc = "activate" /\ hook'[h].pc = "done") =>
               \A i \in ActivateMatches(tickets, hook[h].reference) :
                  DecEq(Dec(hook[h].req.body.data.amount, 2),
                        tickets[i].total_price)]_vars

\* ------------------------------------------------------- every purchase
\* The steps of purchase p after its request was accepted.
PurchaseStep(p) ==
    \/ PurchaseLockEvent(p) \/ PurchasePromo(p) \/ PurchaseCommit(p)
    \/ PurchaseTxDrop(p)

\* C40 -- every purchase returns and unlocks.  A purchase that has
\* returned holds no event's lock, a lock is held only by a purchase
\* inside its transaction, every request that arrived ends answered, and
\* while a purchase is under way some purchase can take a step.
PurchaseTerminates ==
    /\ [](\A e \in Events :
            lock[e] # 0 =>
               /\ buyer[lock[e]].pc \in {"locked", "priced", "dropped"}
               /\ buyer[lock[e]].req.event_id = e)
    /\ [](\A p \in Buyers :
            buyer[p].pc = "done" => buyer[p].result # "")
    /\ \A p \in 1..NumBuyers :
          (buyer[p].pc # "idle") ~> (buyer[p].pc = "done")
    /\ []((\E p \in Buyers : buyer[p].pc \notin {"idle", "done"}) =>
            \E p \in Buyers : ENABLED <<PurchaseStep(p)>>_vars)

\* A purchase waits for the lock of an event while the purchase that
\* holds it has already left through an early return.
PurchaseTerminatesCase ==
    \E p, q \in Buyers :
        /\ buyer[p].pc = "begin"
        /\ lock[buyer[p].req.event_id] = q
        /\ buyer[q].pc = "dropped"


====
